---- MODULE Spec2Model ----
(***************************************************************************)
(* A model of the optimistic single-layer-locking B+tree (BTree in         *)
(* b_tree.hpp) and of its scan cursor (RecordIterator).  The tree is a     *)
(* heap of pages; every actor runs the public operations step by step, one *)
(* step per node it touches, so that descents, splits and merges of        *)
(* different actors interleave as they do in the program.                  *)
(***************************************************************************)
EXTENDS Integers, Sequences, FiniteSets, TLC

VARIABLES
    root,     \* BTree::root_ : the page the root pointer designates
    nodes,    \* the pages: header (kind, high key, sibling, lock word, flag) and slots
    page,     \* per page: "free", "live" (allocated) or "retired" (handed to the GC)
    pins,     \* per retired page: the actors whose epoch guard still protects it
    th,       \* per actor: position in its current operation and its local variables
    ref,      \* the reference key-to-payload map, changed where an operation takes effect
    ops       \* the calls issued so far in a bounded run: their number, keys and kinds

vars == <<root, nodes, page, pins, th, ref, ops>>

(***************************************************************************)
(* Bounds of the model.                                                    *)
(***************************************************************************)
MaxKey == 4
MaxVal == 2
MaxNodes == 13
LoadOps == 3
MaxOps == 1
MaxBulk == 9
MaxThreads == 3
ShrinkLoadOps == 5

(***************************************************************************)
(* Node capacities (records per page), scaled down from the page size.     *)
(***************************************************************************)
LeafCap == 2
InnerCap == 2

Keys == 1..MaxKey
Vals == 1..MaxVal
NodeIds == 1..MaxNodes
Actors == {1, 2}
NULL == 0
NoVal == 0
MinKey == 0
BulkKeys == 1..MaxBulk
KeyInf == (IF MaxBulk > MaxKey THEN MaxBulk ELSE MaxKey) + 1

\* the minimum number of live records below which a node asks for a merge
MinLeafRec == 1
MinInnerRec == 2

BlankNode ==
    [inner |-> FALSE, recs |-> <<>>, high |-> KeyInf, next |-> NULL,
     removed |-> FALSE, s |-> 0, six |-> 0]

(***************************************************************************)
(* Records and slots.  A slot is [k, v, d]: key, payload (a child page in  *)
(* inner nodes) and the delete flag.                                       *)
(***************************************************************************)
Rec(k, v) == [k |-> k, v |-> v, d |-> FALSE]

IsLive(r) == ~r.d

LiveRecs(recs) == SelectSeq(recs, IsLive)

\* the slot holding key k (live or not), 0 when there is none
SlotOf(recs, k) ==
    IF \E i \in 1..Len(recs) : recs[i].k = k
    THEN CHOOSE i \in 1..Len(recs) : recs[i].k = k
    ELSE 0

\* the number of slots whose key is smaller than k
LowerBound(recs, k) == Cardinality({i \in 1..Len(recs) : recs[i].k < k})

InsertAt(recs, pos, r) ==
    SubSeq(recs, 1, pos) \o <<r>> \o SubSeq(recs, pos + 1, Len(recs))

RemoveAt(recs, pos) ==
    SubSeq(recs, 1, pos - 1) \o SubSeq(recs, pos + 1, Len(recs))

KeyIsLive(recs, k) == \E i \in 1..Len(recs) : recs[i].k = k /\ ~recs[i].d

(***************************************************************************)
(* Node operations (node_varlen.hpp / node_fixlen.hpp).  Each works on the *)
(* value of one page and gives the page's new value with a return code.    *)
(***************************************************************************)

\* Node::SearchRecord(key).second : the position at which key is, or belongs
SearchRecord(recs, k) == LowerBound(recs, k)

\* Node::InsertRecord : put a record at slot pos + 1
InsertRecord(n, k, v, pos) == [n EXCEPT !.recs = InsertAt(n.recs, pos, Rec(k, v))]

\* Node::Write on a leaf held in X: overwrite in place, insert, or ask for a split
NodeWrite(n, k, v) ==
    LET live == LiveRecs(n.recs) IN
    IF KeyIsLive(n.recs, k)
    THEN [rc |-> "kCompleted",
          node |-> [n EXCEPT !.recs[SlotOf(n.recs, k)].v = v]]
    ELSE IF Len(live) >= LeafCap
    THEN [rc |-> "kNeedSplit", node |-> n]
    ELSE [rc |-> "kCompleted",
          node |-> [n EXCEPT !.recs = InsertAt(live, SearchRecord(live, k), Rec(k, v))]]

\* Node::Insert on a leaf held in X: refuse a present key, insert, or ask for a split
NodeInsert(n, k, v) ==
    LET live == LiveRecs(n.recs) IN
    IF KeyIsLive(n.recs, k)
    THEN [rc |-> "kKeyAlreadyInserted", node |-> n, out |-> n.recs[SlotOf(n.recs, k)].v]
    ELSE IF Len(live) >= LeafCap
    THEN [rc |-> "kNeedSplit", node |-> n, out |-> NoVal]
    ELSE [rc |-> "kCompleted", out |-> NoVal,
          node |-> [n EXCEPT !.recs = InsertAt(live, SearchRecord(live, k), Rec(k, v))]]

\* Node::Update on a leaf held in X
NodeUpdate(n, k, v) ==
    IF KeyIsLive(n.recs, k)
    THEN [rc |-> "kSuccess", node |-> [n EXCEPT !.recs[SlotOf(n.recs, k)].v = v]]
    ELSE [rc |-> "kKeyNotExist", node |-> n]

\* Node::Delete on a leaf held in X: mark the slot, report an underflow
NodeDelete(n, k) ==
    IF ~KeyIsLive(n.recs, k)
    THEN [rc |-> "kKeyNotInserted", node |-> n]
    ELSE LET m == [n EXCEPT !.recs[SlotOf(n.recs, k)].d = TRUE] IN
         [rc |-> IF Len(LiveRecs(m.recs)) < MinLeafRec THEN "kNeedMerge" ELSE "kCompleted",
          node |-> m]

\* Node::Read on a leaf (an optimistic read that passed its version check)
NodeRead(n, k) ==
    IF KeyIsLive(n.recs, k)
    THEN [rc |-> "kKeyAlreadyInserted", out |-> n.recs[SlotOf(n.recs, k)].v]
    ELSE [rc |-> "kKeyNotInserted", out |-> NoVal]

\* a split whose left half takes its own last key as high key
SplitLeft_LastKey(l, rid) ==
    LET live == LiveRecs(l.recs)
        keep == (Len(live) + 1) \div 2
    IN  [l EXCEPT !.recs = SubSeq(live, 1, keep), !.next = rid,
                  !.high = live[keep].k, !.s = 0, !.six = 0]

\* Node::Split : the upper half of the live records moves to the fresh right node
SplitLeft(l, rid) ==
    LET live == LiveRecs(l.recs)
        keep == (Len(live) + 1) \div 2
    IN  [l EXCEPT !.recs = SubSeq(live, 1, keep), !.next = rid,
                  !.high = live[keep + 1].k, !.s = 0, !.six = 0]

SplitRight(l) ==
    LET live == LiveRecs(l.recs)
        keep == (Len(live) + 1) \div 2
    IN  [inner |-> l.inner, recs |-> SubSeq(live, keep + 1, Len(live)),
         high |-> l.high, next |-> l.next, removed |-> FALSE, s |-> 0, six |-> 0]

\* Node::GetValidSplitNode : does the key belong to the left half of a split pair
GetValidSplitNode(l, k) == k < l.high

\* a separator that is the first key of the half that received the record
GetSeparatorKey_First(n, isLeft) == n.recs[1].k

\* Node::GetSeparatorKey(is_left) of the half that received the record
GetSeparatorKey(n, isLeft) == IF isLeft THEN n.high ELSE n.recs[1].k

\* Node::SearchChild : the slot of the greatest routing key <= key
ChildPos(recs, k) ==
    LET le == {i \in 1..Len(recs) : recs[i].k <= k} IN
    IF le = {} THEN 1 ELSE CHOOSE i \in le : \A j \in le : j <= i

\* Node::InsertChild on an inner node held in X
InsertChild(n, child, sep) ==
    IF SlotOf(n.recs, sep) # 0
    THEN [rc |-> "kNeedRetry", node |-> n]
    ELSE IF Len(n.recs) >= InnerCap
    THEN [rc |-> "kNeedSplit", node |-> n]
    ELSE [rc |-> "kCompleted",
          node |-> [n EXCEPT !.recs = InsertAt(n.recs, LowerBound(n.recs, sep), Rec(sep, child))]]

\* Node::DeleteChild on an inner node held in X
DeleteChild(n, delKey) ==
    LET pos == SlotOf(n.recs, delKey) IN
    IF pos = 0 THEN [rc |-> "kNeedRetry", node |-> n]
    ELSE IF pos = 1 THEN [rc |-> "kAbortMerge", node |-> n]
    ELSE LET m == [n EXCEPT !.recs = RemoveAt(n.recs, pos)] IN
         [rc |-> IF Len(m.recs) < MinInnerRec THEN "kNeedMerge" ELSE "kCompleted",
          node |-> m]

\* a merge that leaves the records of the right node behind
MergeLeft_DropRight(l, r) ==
    [l EXCEPT !.recs = LiveRecs(l.recs), !.high = r.high, !.next = r.next, !.six = 0]

\* Node::Merge : the left node takes the live records, high key and sibling of the right
MergeLeft(l, r) ==
    [l EXCEPT !.recs = LiveRecs(l.recs) \o LiveRecs(r.recs),
              !.high = r.high, !.next = r.next, !.six = 0]

MergeRight(r) == [r EXCEPT !.removed = TRUE, !.six = 0]

\* Node::GetMergeableSiblingNode : do the live records of both nodes fit one page
Mergeable(l, r) ==
    Len(LiveRecs(l.recs)) + Len(LiveRecs(r.recs)) <= (IF l.inner THEN InnerCap ELSE LeafCap)

\* Node::CheckKeyRange : "null" for a removed node, "hop" when the key is at or
\* beyond the high key, "ok" when the node covers the key
CheckKeyRange(n, k) ==
    IF n.removed THEN "null"
    ELSE IF k >= n.high THEN (IF n.next = NULL THEN "null" ELSE "hop")
    ELSE "ok"

\* lock modes of the version-and-lock word
CanLockX(n) == n.s = 0 /\ n.six = 0
CanLockSIX(n) == n.six = 0

(***************************************************************************)
(* Pages and the reclaimer (memory/epoch_based_gc.hpp).                    *)
(***************************************************************************)
FreePages == {n \in NodeIds : page[n] = "free"}

\* BTree::GetNodePage : a reusable page of the reclaimer, or a fresh one
GetNodePage == CHOOSE n \in FreePages : \A m \in FreePages : n <= m

\* the actors holding an epoch guard: those inside an operation that created one
\* (CollectStatisticalData creates none)
Guarded == {a \in Actors : th[a].pc # "idle" /\ th[a].type # "stats"}

\* one actor's local variables when it runs no operation
IdleTh ==
    [pc |-> "idle", type |-> "none", key |-> 0, val |-> 0, stack |-> <<>>,
     node |-> NULL, child |-> NULL, lch |-> NULL, rch |-> NULL, skey |-> 0,
     snode |-> NULL, after |-> "none", casc |-> FALSE, ret |-> "none", out |-> NoVal,
     exp |-> "none", expOut |-> NoVal, split |-> FALSE, merged |-> FALSE,
     pos |-> 0, endPos |-> 0, isEnd |-> FALSE, outs |-> <<>>, had |-> NoVal,
     seen |-> {}, made |-> {}, fresh |-> FALSE, last |-> NULL]

\* the local variables of an operation die at its return statement; what stays is
\* what the caller gets and the ghost record of the call
AtReturn(t) ==
    [IdleTh EXCEPT !.pc = "done", !.type = t.type, !.key = t.key, !.val = t.val,
                   !.ret = t.ret, !.out = t.out, !.exp = t.exp, !.expOut = t.expOut,
                   !.split = t.split, !.merged = t.merged, !.outs = t.outs,
                   !.had = t.had, !.seen = t.seen, !.made = t.made,
                   !.fresh = t.fresh, !.last = t.last]

Pop(stack) == SubSeq(stack, 1, Len(stack) - 1)
Back(stack) == stack[Len(stack)]

(***************************************************************************)
(* The reference map: what a sequential key-to-payload map answers.        *)
(***************************************************************************)
RefRet(m, type, k) ==
    CASE type = "write"  -> "kSuccess"
      [] type = "insert" -> IF m[k] # NoVal THEN "kKeyExist" ELSE "kSuccess"
      [] type = "update" -> IF m[k] # NoVal THEN "kSuccess" ELSE "kKeyNotExist"
      [] type = "delete" -> IF m[k] # NoVal THEN "kSuccess" ELSE "kKeyNotExist"
      [] OTHER           -> "kSuccess"

RefOut(m, type, k) ==
    IF type \in {"read", "insert"} THEN m[k] ELSE NoVal

RefApply(m, type, k, v) ==
    CASE type = "write"  -> [m EXCEPT ![k] = v]
      [] type = "insert" -> IF m[k] # NoVal THEN m ELSE [m EXCEPT ![k] = v]
      [] type = "update" -> IF m[k] # NoVal THEN [m EXCEPT ![k] = v] ELSE m
      [] type = "delete" -> [m EXCEPT ![k] = NoVal]
      [] OTHER           -> m

\* the ghost part of a leaf step: the operation takes effect on the reference map
Effect(t) ==
    [t EXCEPT !.exp = RefRet(ref, t.type, t.key), !.expOut = RefOut(ref, t.type, t.key)]

\* the ghost record of the payloads a key went through while a Read of it was running
Observe(f, m) ==
    [b \in Actors |->
        IF f[b].type = "read" /\ f[b].pc \in {"search", "read"}
        THEN [f[b] EXCEPT !.seen = @ \cup {m[f[b].key]}]
        ELSE f[b]]

(***************************************************************************)
(* Init: the tree after BTree::BTree, an empty leaf as root.               *)
(***************************************************************************)
Init ==
    /\ root = 1
    /\ nodes = [n \in NodeIds |-> BlankNode]
    /\ page = [n \in NodeIds |-> IF n = 1 THEN "live" ELSE "free"]
    /\ pins = [n \in NodeIds |-> {}]
    /\ th = [a \in Actors |-> IdleTh]
    /\ ref = [k \in 1..(KeyInf - 1) |-> NoVal]
    /\ ops = [load |-> 0, bulk |-> 0, cnt |-> [a \in Actors |-> 0],
              keys |-> [a \in Actors |-> {}], kinds |-> [a \in Actors |-> {}]]

(***************************************************************************)
(* The public operations: entry (epoch guard, root load).                  *)
(***************************************************************************)
ReadOps == {"read", "update", "scan"}
WriteOps == {"write", "insert", "delete"}

\* CreateEpochGuard and the root_.load of SearchLeafNode / SearchLeafNodeForWrite
Enter(a, type, k, v) ==
    /\ th[a].pc = "idle"
    /\ th' = [th EXCEPT ![a] =
                [IdleTh EXCEPT !.pc = IF type \in WriteOps THEN "searchw" ELSE "search",
                               !.type = type, !.key = k, !.val = v, !.node = root,
                               !.had = ref[k], !.seen = {ref[k]}]]
    /\ UNCHANGED <<root, nodes, page, pins, ref>>

\* BTree::SearchLeafNode : one node of the descent
SearchLeafNode(a) ==
    LET t == th[a]
        n == nodes[t.node]
    IN  /\ t.pc = "search"
        /\ IF n.inner
           THEN LET c == CheckKeyRange(n, t.key) IN
                th' = [th EXCEPT ![a].node =
                          CASE c = "null" -> root
                            [] c = "hop"  -> n.next
                            [] OTHER      -> n.recs[ChildPos(n.recs, t.key)].v]
           ELSE th' = [th EXCEPT ![a].pc = t.type]
        /\ UNCHANGED <<root, nodes, page, pins, ref, ops>>

\* BTree::SearchLeafNodeForWrite : one node of the descent, recorded on the stack
SearchLeafNodeForWrite(a) ==
    LET t == th[a]
        n == nodes[t.node]
    IN  /\ t.pc = "searchw"
        /\ IF n.inner
           THEN LET c == CheckKeyRange(n, t.key) IN
                CASE c = "null" -> th' = [th EXCEPT ![a].stack = <<>>, ![a].node = root]
                  [] c = "hop"  -> th' = [th EXCEPT ![a].node = n.next]
                  [] OTHER      -> th' = [th EXCEPT ![a].stack = Append(t.stack, t.node),
                                                    ![a].node = n.recs[ChildPos(n.recs, t.key)].v]
           ELSE th' = [th EXCEPT ![a].stack = Append(t.stack, t.node), ![a].pc = t.type]
        /\ UNCHANGED <<root, nodes, page, pins, ref, ops>>

\* a Read that reports every key absent
ReadResult_Absent(rc, payload) == NoVal

\* a Read that hands back a payload other than the one the leaf holds
ReadResult_Torn(rc, payload) ==
    IF rc = "kKeyAlreadyInserted" THEN (payload % MaxVal) + 1 ELSE NoVal

\* what BTree::Read hands back for the code of Node::Read
ReadResult(rc, payload) == IF rc = "kKeyAlreadyInserted" THEN payload ELSE NoVal

\* the code a static node function hands back when the range recheck found the
\* node flagged deleted and signalled a root retry (the node pointer is then null)
RootRetry == "kNeedRetry"

\* BTree::Read : Node::Read on the leaf the descent gave.  Read has no loop: a
\* signalled root retry is no kKeyAlreadyInserted, and Read returns nullopt
Read(a) ==
    LET t == th[a]
        n == nodes[t.node]
        c == CheckKeyRange(n, t.key)
        r == NodeRead(n, t.key)
    IN  /\ t.pc = "read"
        /\ CASE c = "null" -> th' = [th EXCEPT ![a] =
                                  AtReturn([Effect(t) EXCEPT !.ret = "kSuccess",
                                                             !.out = ReadResult(RootRetry, NoVal)])]
             [] c = "hop"  -> th' = [th EXCEPT ![a].node = n.next]
             [] OTHER      -> th' = [th EXCEPT ![a] =
                                  AtReturn([Effect(t) EXCEPT !.ret = "kSuccess",
                                                             !.out = ReadResult(r.rc, r.out)])]
        /\ UNCHANGED <<root, nodes, page, pins, ref, ops>>

\* BTree::Update : Node::Update on the leaf the descent gave; its code is returned
\* as it is (after a signalled root retry nothing was updated: kKeyNotExist)
Update(a) ==
    LET t == th[a]
        n == nodes[t.node]
        c == CheckKeyRange(n, t.key)
        r == NodeUpdate(n, t.key, t.val)
    IN  /\ t.pc = "update"
        /\ CanLockX(n)
        /\ CASE c = "hop"  -> th' = [th EXCEPT ![a].node = n.next] /\ UNCHANGED <<nodes, ref>>
             [] OTHER      ->
                  /\ nodes' = IF c = "null" THEN nodes ELSE [nodes EXCEPT ![t.node] = r.node]
                  /\ ref' = RefApply(ref, t.type, t.key, t.val)
                  /\ th' = Observe([th EXCEPT ![a] =
                              AtReturn([Effect(t) EXCEPT
                                  !.ret = IF c = "null" THEN "kKeyNotExist" ELSE r.rc])], ref')
        /\ UNCHANGED <<root, page, pins, ops>>

(***************************************************************************)
(* Write, Insert and Delete on the leaf, with the leaf split.              *)
(***************************************************************************)

\* a leaf split that puts the new record into the left half whatever its key
SplitAndInsert_Left(n, rid, k, v) ==
    LET l == SplitLeft(n, rid)
        filled == InsertRecord(l, k, v, SearchRecord(l.recs, k))
    IN  [l |-> filled, r |-> SplitRight(n), sep |-> GetSeparatorKey(filled, TRUE)]

\* HalfSplit, GetValidSplitNode, InsertRecord and GetSeparatorKey of Write and
\* Insert: the two halves after the record went into its half, and the separator
SplitAndInsert(n, rid, k, v) ==
    LET l == SplitLeft(n, rid)
        r == SplitRight(n)
        isLeft == GetValidSplitNode(l, k)
        target == IF isLeft THEN l ELSE r
        filled == InsertRecord(target, k, v, SearchRecord(target.recs, k))
    IN  [l |-> IF isLeft THEN filled ELSE l,
         r |-> IF isLeft THEN r ELSE filled,
         sep |-> GetSeparatorKey(filled, isLeft)]

\* the local variables at the first line of CompleteSplit
EnterCompleteSplit(t, l, r, sep) ==
    [t EXCEPT !.pc = "cs", !.stack = Pop(t.stack), !.node = NULL,
              !.lch = l, !.rch = r, !.skey = sep, !.split = TRUE,
              !.made = t.made \cup {r}]

\* the leaf split of Write and Insert, up to the call of CompleteSplit
LeafSplit(a, t) ==
    LET rid == GetNodePage
        sp == SplitAndInsert(nodes[t.node], rid, t.key, t.val)
    IN  /\ FreePages # {}
        /\ nodes' = [nodes EXCEPT ![t.node] = sp.l, ![rid] = sp.r]
        /\ page' = [page EXCEPT ![rid] = "live"]
        /\ ref' = RefApply(ref, t.type, t.key, t.val)
        /\ th' = Observe([th EXCEPT ![a] =
                    EnterCompleteSplit([Effect(t) EXCEPT !.ret = "kSuccess"], t.node, rid, sp.sep)],
                    ref')

\* BTree::Write.  The node pointer that CheckKeyRangeAndLockForWrite leaves is used
\* unchecked: when it is null, node->Write is a null dereference and the call ends
\* in a fault, it never returns
Write(a) ==
    LET t == th[a]
        n == nodes[t.node]
        c == CheckKeyRange(n, t.key)
        w == NodeWrite(n, t.key, t.val)
    IN  /\ t.pc = "write"
        /\ CanLockX(n)
        /\ CASE c = "null" ->
                  th' = [th EXCEPT ![a].pc = "crashed"] /\ UNCHANGED <<nodes, page, ref>>
             [] c = "hop" ->
                  th' = [th EXCEPT ![a].node = n.next] /\ UNCHANGED <<nodes, page, ref>>
             [] OTHER ->
                  IF w.rc = "kNeedSplit"
                  THEN LeafSplit(a, t)
                  ELSE /\ nodes' = [nodes EXCEPT ![t.node] = w.node]
                       /\ ref' = RefApply(ref, t.type, t.key, t.val)
                       /\ th' = Observe([th EXCEPT ![a] =
                                   AtReturn([Effect(t) EXCEPT !.ret = "kSuccess"])], ref')
                       /\ UNCHANGED page
        /\ UNCHANGED <<root, pins, ops>>

\* an Insert that does not look at kKeyAlreadyInserted
InsertReturn_Always(rc) == "kSuccess"

\* what BTree::Insert returns for the code of Node::Insert
InsertReturn(rc) == IF rc = "kKeyAlreadyInserted" THEN "kKeyExist" ELSE "kSuccess"

\* BTree::Insert.  A signalled root retry is neither kKeyAlreadyInserted nor
\* kNeedSplit: Insert returns kSuccess and nothing was inserted
Insert(a) ==
    LET t == th[a]
        n == nodes[t.node]
        c == CheckKeyRange(n, t.key)
        w == NodeInsert(n, t.key, t.val)
    IN  /\ t.pc = "insert"
        /\ CanLockX(n)
        /\ CASE c = "null" ->
                  /\ ref' = RefApply(ref, t.type, t.key, t.val)
                  /\ th' = Observe([th EXCEPT ![a] =
                              AtReturn([Effect(t) EXCEPT !.ret = InsertReturn(RootRetry)])], ref')
                  /\ UNCHANGED <<nodes, page>>
             [] c = "hop" ->
                  th' = [th EXCEPT ![a].node = n.next] /\ UNCHANGED <<nodes, page, ref>>
             [] OTHER ->
                  IF w.rc = "kKeyAlreadyInserted"
                  THEN /\ th' = [th EXCEPT ![a] =
                                   AtReturn([Effect(t) EXCEPT !.ret = InsertReturn(w.rc),
                                                              !.out = w.out])]
                       /\ UNCHANGED <<nodes, page, ref>>
                  ELSE IF w.rc = "kNeedSplit"
                  THEN LeafSplit(a, t)
                  ELSE /\ nodes' = [nodes EXCEPT ![t.node] = w.node]
                       /\ ref' = RefApply(ref, t.type, t.key, t.val)
                       /\ th' = Observe([th EXCEPT ![a] =
                                   AtReturn([Effect(t) EXCEPT !.ret = InsertReturn(w.rc)])], ref')
                       /\ UNCHANGED page
        /\ UNCHANGED <<root, pins, ops>>

\* a Delete that does not look at kKeyNotInserted
DeleteReturn_Always(rc) == "kSuccess"

\* what BTree::Delete returns for the code of Node::Delete
DeleteReturn(rc) == IF rc = "kKeyNotInserted" THEN "kKeyNotExist" ELSE "kSuccess"

\* BTree::Delete.  A signalled root retry is neither kKeyNotInserted nor
\* kNeedMerge: Delete returns kSuccess and nothing was deleted
Delete(a) ==
    LET t == th[a]
        n == nodes[t.node]
        c == CheckKeyRange(n, t.key)
        d == NodeDelete(n, t.key)
    IN  /\ t.pc = "delete"
        /\ CanLockX(n)
        /\ CASE c = "hop" ->
                  th' = [th EXCEPT ![a].node = n.next] /\ UNCHANGED <<nodes, ref>>
             [] c = "null" ->
                  /\ ref' = RefApply(ref, t.type, t.key, t.val)
                  /\ th' = Observe([th EXCEPT ![a] =
                              AtReturn([Effect(t) EXCEPT !.ret = DeleteReturn(RootRetry)])], ref')
                  /\ UNCHANGED nodes
             [] OTHER ->
                  /\ ref' = RefApply(ref, t.type, t.key, t.val)
                  /\ IF d.rc = "kNeedMerge"
                     THEN /\ nodes' = [nodes EXCEPT ![t.node] = [d.node EXCEPT !.six = a]]
                          /\ th' = Observe([th EXCEPT ![a] =
                                      [Effect(t) EXCEPT !.pc = "mg", !.stack = Pop(t.stack),
                                                        !.node = NULL, !.lch = t.node,
                                                        !.ret = DeleteReturn(d.rc)]], ref')
                     ELSE /\ nodes' = [nodes EXCEPT ![t.node] = d.node]
                          /\ th' = Observe([th EXCEPT ![a] =
                                      AtReturn([Effect(t) EXCEPT !.ret = DeleteReturn(d.rc)])],
                                      ref')
        /\ UNCHANGED <<root, page, pins, ops>>

(***************************************************************************)
(* CompleteSplit, TryRootSplit and SearchParentNode.                       *)
(***************************************************************************)

\* the local variables at the first line of SearchParentNode
EnterSearchParent(t, from) ==
    [t EXCEPT !.pc = "spn", !.snode = root, !.child = NULL, !.after = from]

\* a root whose two children are entered in the wrong order
NewRoot_Swapped(sep, l, r) ==
    [BlankNode EXCEPT !.inner = TRUE, !.recs = <<Rec(MinKey, r), Rec(sep, l)>>]

\* the root node that TryRootSplit constructs
NewRoot(sep, l, r) ==
    [BlankNode EXCEPT !.inner = TRUE, !.recs = <<Rec(MinKey, l), Rec(sep, r)>>]

\* BTree::TryRootSplit, the load and the comparison (followed, when it fails, by
\* the call of SearchParentNode in CompleteSplit)
TryRootSplitLoad(a) ==
    LET t == th[a] IN
    /\ \/ t.pc = "cs" /\ t.stack = <<>>
       \/ t.pc = "cs_null"
    /\ th' = [th EXCEPT ![a] = IF root = t.lch
                               THEN [t EXCEPT !.pc = "cs_store"]
                               ELSE EnterSearchParent([t EXCEPT !.fresh = @ \/ t.pc = "cs"], "cs")]
    /\ UNCHANGED <<root, nodes, page, pins, ref, ops>>

\* BTree::TryRootSplit, the construction and the store of the new root
TryRootSplitStore(a) ==
    LET t == th[a]
        new == GetNodePage
    IN  /\ t.pc = "cs_store"
        /\ FreePages # {}
        /\ nodes' = [nodes EXCEPT ![new] = NewRoot(t.skey, t.lch, t.rch)]
        /\ page' = [page EXCEPT ![new] = "live"]
        /\ root' = new
        /\ th' = [th EXCEPT ![a] = AtReturn(t)]
        /\ UNCHANGED <<pins, ref, ops>>

\* a split of a full parent that puts the new routing entry into the left half
\* whatever its separator
SplitAndInsertChild_Left(n, rid, child, sep) ==
    LET l == SplitLeft(n, rid)
        filled == InsertChild(l, child, sep).node
    IN  [l |-> filled, r |-> SplitRight(n), sep |-> GetSeparatorKey(filled, TRUE)]

\* HalfSplit, GetValidSplitNode, InsertChild and GetSeparatorKey of CompleteSplit
SplitAndInsertChild(n, rid, child, sep) ==
    LET l == SplitLeft(n, rid)
        r == SplitRight(n)
        isLeft == GetValidSplitNode(l, sep)
        target == IF isLeft THEN l ELSE r
        filled == InsertChild(target, child, sep).node
    IN  [l |-> IF isLeft THEN filled ELSE l,
         r |-> IF isLeft THEN r ELSE filled,
         sep |-> GetSeparatorKey(filled, isLeft)]

\* BTree::CompleteSplit, one iteration on a candidate parent
CompleteSplit(a) ==
    LET t == th[a]
        pn == IF t.node = NULL THEN Back(t.stack) ELSE t.node
        n == nodes[pn]
        c == CheckKeyRange(n, t.skey)
        ic == InsertChild(n, t.rch, t.skey)
        rid == GetNodePage
        sp == SplitAndInsertChild(n, rid, t.rch, t.skey)
    IN  /\ t.pc = "cs"
        /\ t.stack # <<>>
        /\ CanLockX(n)
        /\ CASE c = "null" ->
                  /\ th' = [th EXCEPT ![a].pc = "cs_null", ![a].node = NULL]
                  /\ UNCHANGED <<nodes, page>>
             [] c = "hop" ->
                  th' = [th EXCEPT ![a].node = n.next] /\ UNCHANGED <<nodes, page>>
             [] OTHER ->
                  CASE ic.rc = "kCompleted" ->
                         /\ nodes' = [nodes EXCEPT ![pn] = ic.node]
                         /\ th' = [th EXCEPT ![a] = AtReturn(t)]
                         /\ UNCHANGED page
                    [] ic.rc = "kNeedSplit" ->
                         /\ FreePages # {}
                         /\ nodes' = [nodes EXCEPT ![pn] = sp.l, ![rid] = sp.r]
                         /\ page' = [page EXCEPT ![rid] = "live"]
                         /\ th' = [th EXCEPT ![a] = EnterCompleteSplit(t, pn, rid, sp.sep)]
                    [] OTHER ->
                         /\ th' = [th EXCEPT ![a].node = pn]
                         /\ UNCHANGED <<nodes, page>>
        /\ UNCHANGED <<root, pins, ref, ops>>

\* BTree::SearchParentNode, one node of the fresh descent
SearchParentNode(a) ==
    LET t == th[a]
        n == nodes[t.snode]
        c == CheckKeyRange(n, t.skey)
        child == IF n.inner THEN n.recs[ChildPos(n.recs, t.skey)].v ELSE t.child
    IN  /\ t.pc = "spn"
        /\ IF t.snode = NULL
           THEN th' = [th EXCEPT ![a].pc = "crashed"]
           ELSE CASE c = "null" ->
                       th' = [th EXCEPT ![a].stack = <<>>, ![a].snode = root]
                  [] c = "hop" ->
                       th' = [th EXCEPT ![a].snode = n.next]
                  [] OTHER ->
                       IF t.snode = t.rch
                       THEN th' = [th EXCEPT ![a].pc = t.after, ![a].child = child]
                       ELSE th' = [th EXCEPT ![a].stack = Append(t.stack, t.snode),
                                             ![a].snode = child, ![a].child = child]
        /\ UNCHANGED <<root, nodes, page, pins, ref, ops>>

(***************************************************************************)
(* Merge and TryShrinkTree.                                                *)
(***************************************************************************)

\* BTree::Merge, the top of the loop: GetMergeableSiblingNode, the stack check
\* and the choice of the candidate parent
MergeProbe(a) ==
    LET t == th[a]
        l == nodes[t.lch]
        rid == l.next
        found == [t EXCEPT !.rch = rid, !.skey = l.high]
    IN  /\ t.pc = "mg"
        /\ IF rid = NULL
           THEN /\ nodes' = [nodes EXCEPT ![t.lch].six = 0]
                /\ th' = [th EXCEPT ![a] = AtReturn(t)]
           ELSE /\ CanLockSIX(nodes[rid])
                /\ IF Mergeable(l, nodes[rid])
                   THEN /\ nodes' = [nodes EXCEPT ![rid].six = a]
                        /\ th' = [th EXCEPT ![a] =
                                    IF t.stack = <<>>
                                    THEN EnterSearchParent(found, "mg")
                                    ELSE IF t.node = NULL
                                    THEN [found EXCEPT !.pc = "mg_parent",
                                                       !.node = Back(t.stack),
                                                       !.stack = Pop(t.stack)]
                                    ELSE [found EXCEPT !.pc = "mg_parent"]]
                   ELSE /\ nodes' = [nodes EXCEPT ![t.lch].six = 0]
                        /\ th' = [th EXCEPT ![a] = AtReturn(t)]
        /\ UNCHANGED <<root, page, pins, ref, ops>>

\* BTree::Merge, the candidate parent: CheckKeyRangeAndLockForWrite and DeleteChild
MergeParent(a) ==
    LET t == th[a]
        n == nodes[t.node]
        c == CheckKeyRange(n, t.skey)
        dc == DeleteChild(n, t.skey)
    IN  /\ t.pc = "mg_parent"
        /\ CanLockX(n)
        /\ CASE c = "null" ->
                  /\ th' = [th EXCEPT ![a] = EnterSearchParent([t EXCEPT !.node = NULL], "mg")]
                  /\ UNCHANGED nodes
             [] c = "hop" ->
                  th' = [th EXCEPT ![a].node = n.next] /\ UNCHANGED nodes
             [] OTHER ->
                  CASE dc.rc = "kCompleted" ->
                         /\ nodes' = [nodes EXCEPT ![t.node] = dc.node]
                         /\ th' = [th EXCEPT ![a].pc = "mg_merge", ![a].casc = FALSE]
                    [] dc.rc = "kAbortMerge" ->
                         /\ nodes' = [nodes EXCEPT ![t.lch].six = 0, ![t.rch].six = 0]
                         /\ th' = [th EXCEPT ![a] = AtReturn(t)]
                    [] dc.rc = "kNeedRetry" ->
                         /\ th' = [th EXCEPT ![a].pc = "mg"]
                         /\ UNCHANGED nodes
                    [] OTHER ->
                         /\ nodes' = [nodes EXCEPT ![t.node] = [dc.node EXCEPT !.six = a]]
                         /\ th' = [th EXCEPT ![a].pc = "mg_merge", ![a].casc = TRUE]
        /\ UNCHANGED <<root, page, pins, ref, ops>>

\* BTree::Merge, Node::Merge of the pair and the retirement of the right node
MergeNodes(a) ==
    LET t == th[a]
        l == nodes[t.lch]
        r == nodes[t.rch]
    IN  /\ t.pc = "mg_merge"
        /\ l.s = 0 /\ r.s = 0
        /\ nodes' = [nodes EXCEPT ![t.lch] = MergeLeft(l, r), ![t.rch] = MergeRight(r)]
        /\ page' = [page EXCEPT ![t.rch] = "retired"]
        /\ pins' = [pins EXCEPT ![t.rch] = Guarded]
        /\ th' = [th EXCEPT ![a] =
                    IF ~t.casc THEN AtReturn([t EXCEPT !.merged = TRUE])
                    ELSE IF t.stack = <<>> THEN [t EXCEPT !.pc = "shrink", !.merged = TRUE]
                    ELSE [t EXCEPT !.pc = "mg", !.lch = t.node, !.node = NULL,
                                   !.merged = TRUE]]
        /\ UNCHANGED <<root, ref, ops>>

\* Node::RemoveRoot : the sole child of a root
SoleChild(n) == nodes[n].recs[1].v

\* BTree::TryShrinkTree, the test of the root; when it holds, the first turn of
\* the loop hands the root to the reclaimer (AddGarbage), the root pointer still
\* designating it
TryShrinkTree(a) ==
    LET t == th[a] IN
    /\ t.pc = "shrink"
    /\ IF t.node = root /\ Len(nodes[t.node].recs) = 1
       THEN /\ page' = [page EXCEPT ![t.node] = "retired"]
            /\ pins' = [pins EXCEPT ![t.node] = Guarded]
            /\ th' = [th EXCEPT ![a].pc = "shrink_rm", ![a].child = t.node]
            /\ UNCHANGED nodes
       ELSE /\ nodes' = [nodes EXCEPT ![t.node].six = 0]
            /\ th' = [th EXCEPT ![a] = AtReturn(t)]
            /\ UNCHANGED <<page, pins>>
    /\ UNCHANGED <<root, ref, ops>>

\* a loop that ends after its first turn whatever the child is
TryShrinkLoop_Once(a) ==
    LET t == th[a]
        c == SoleChild(t.node)
    IN  /\ t.pc = "shrink_rm"
        /\ CanLockSIX(nodes[c])
        /\ nodes' = [nodes EXCEPT ![t.node].removed = TRUE, ![t.node].six = 0,
                                   ![c].six = a]
        /\ th' = [th EXCEPT ![a].pc = "shrink_store", ![a].node = c]
        /\ UNCHANGED <<page, pins, root, ref, ops>>

\* BTree::TryShrinkTree, the rest of a turn of the loop: Node::RemoveRoot takes
\* the sole child in SIX, flags the removed root and unlocks it; when the child is
\* an inner node with one record the next turn hands it to the reclaimer
TryShrinkLoop(a) ==
    LET t == th[a]
        c == SoleChild(t.node)
        again == Len(nodes[c].recs) = 1 /\ nodes[c].inner
    IN  /\ t.pc = "shrink_rm"
        /\ CanLockSIX(nodes[c])
        /\ nodes' = [nodes EXCEPT ![t.node].removed = TRUE, ![t.node].six = 0,
                                   ![c].six = a]
        /\ page' = IF again THEN [page EXCEPT ![c] = "retired"] ELSE page
        /\ pins' = IF again THEN [pins EXCEPT ![c] = Guarded] ELSE pins
        /\ th' = [th EXCEPT ![a].pc = IF again THEN "shrink_rm" ELSE "shrink_store",
                            ![a].node = c]
        /\ UNCHANGED <<root, ref, ops>>

\* a TryShrinkTree that returns without UnlockSIX of the new root
TryShrinkStore_NoUnlock(a) ==
    LET t == th[a] IN
    /\ t.pc = "shrink_store"
    /\ root' = t.node
    /\ th' = [th EXCEPT ![a] = AtReturn(t)]
    /\ UNCHANGED <<nodes, page, pins, ref, ops>>

\* BTree::TryShrinkTree, the store of the node the loop ended on and its unlock
TryShrinkStore(a) ==
    LET t == th[a] IN
    /\ t.pc = "shrink_store"
    /\ root' = t.node
    /\ nodes' = [nodes EXCEPT ![t.node].six = 0]
    /\ th' = [th EXCEPT ![a] = AtReturn(t)]
    /\ UNCHANGED <<page, pins, ref, ops>>

(***************************************************************************)
(* Scan and the cursor (RecordIterator).  The begin key is th.key, the end *)
(* key th.val, both bounds closed.                                         *)
(***************************************************************************)

\* Node::SearchEndPositionFor(end_key) : is this the last leaf of the range, and
\* the slot at which the scan of this leaf ends
SearchEndPositionFor(n, endKey) ==
    LET last == endKey < n.high \/ n.next = NULL IN
    [isEnd |-> last,
     endPos |-> IF last THEN Cardinality({i \in 1..Len(n.recs) : n.recs[i].k <= endKey})
                ELSE Len(n.recs)]

\* Node::RecordIsDeleted(pos), slots counted from 0
RecordIsDeleted(n, pos) == n.recs[pos + 1].d

\* a HasNext without the loop that skips deleted records
SkipDeleted_None(n, pos, endPos) == pos

\* the first slot at or after pos that the skipping loop of HasNext stops at
RECURSIVE SkipDeleted(_, _, _)
SkipDeleted(n, pos, endPos) ==
    IF pos < endPos /\ RecordIsDeleted(n, pos)
    THEN SkipDeleted(n, pos + 1, endPos)
    ELSE pos

\* BTree::Scan : the cursor is built on the leaf of the begin key, held in S
Scan(a) ==
    LET t == th[a]
        n == nodes[t.node]
        c == CheckKeyRange(n, t.key)
        e == SearchEndPositionFor(n, t.val)
    IN  /\ t.pc = "scan"
        /\ CASE c = "null" -> th' = [th EXCEPT ![a].pc = "crashed"] /\ UNCHANGED nodes
             [] c = "hop"  -> th' = [th EXCEPT ![a].node = n.next] /\ UNCHANGED nodes
             [] OTHER      ->
                  /\ nodes' = [nodes EXCEPT ![t.node].s = @ + 1]
                  /\ th' = [th EXCEPT ![a].pc = "hasnext",
                                      ![a].pos = LowerBound(n.recs, t.key),
                                      ![a].endPos = e.endPos, ![a].isEnd = e.isEnd]
        /\ UNCHANGED <<root, page, pins, ref, ops>>

\* RecordIterator::HasNext, one turn of its outer loop
HasNext(a) ==
    LET t == th[a]
        n == nodes[t.node]
        p == SkipDeleted(n, t.pos, t.endPos)
        e == SearchEndPositionFor(nodes[n.next], t.val)
    IN  /\ t.pc = "hasnext"
        /\ IF p < t.endPos
           THEN /\ th' = [th EXCEPT ![a].pc = "deref", ![a].pos = p]
                /\ UNCHANGED nodes
           ELSE IF t.isEnd
           THEN /\ nodes' = [nodes EXCEPT ![t.node].s = @ - 1]
                /\ th' = [th EXCEPT ![a] = AtReturn([t EXCEPT !.ret = "kSuccess",
                                                              !.last = t.node])]
           ELSE /\ nodes' = [nodes EXCEPT ![n.next].s = @ + 1, ![t.node].s = @ - 1]
                /\ th' = [th EXCEPT ![a].node = n.next, ![a].pos = 0,
                                    ![a].endPos = e.endPos, ![a].isEnd = e.isEnd]
        /\ UNCHANGED <<root, page, pins, ref, ops>>

\* RecordIterator::HasNext called once more on a cursor for which it has returned
\* false: pos_, end_pos_ and is_end_ are as the last call left them, so the call
\* goes to ReleaseSharedLock of node_ and returns false again
HasNextAtEnd(a) ==
    LET t == th[a] IN
    /\ t.pc = "done" /\ t.type = "scan" /\ t.ret = "kSuccess"
    /\ nodes' = [nodes EXCEPT ![t.last].s = @ - 1]
    /\ th' = [th EXCEPT ![a].ret = "kAgain"]
    /\ UNCHANGED <<root, page, pins, ref, ops>>

\* RecordIterator::operator* and operator++ : the caller takes the record and advances
Advance(a) ==
    LET t == th[a]
        r == nodes[t.node].recs[t.pos + 1]
    IN  /\ t.pc = "deref"
        /\ th' = [th EXCEPT ![a].pc = "hasnext", ![a].pos = t.pos + 1,
                            ![a].outs = Append(t.outs, <<r.k, r.v>>)]
        /\ UNCHANGED <<root, nodes, page, pins, ref, ops>>

\* RecordIterator::~RecordIterator of a cursor that is not exhausted: the defaulted
\* destructor touches no node; the caller is through with its call
DropIterator(a) ==
    LET t == th[a] IN
    /\ t.pc \in {"hasnext", "deref"}
    /\ th' = [th EXCEPT ![a] = AtReturn([t EXCEPT !.ret = "kDropped"])]
    /\ UNCHANGED <<root, nodes, page, pins, ref, ops>>

(***************************************************************************)
(* CollectStatisticalData.  The walk keeps the nodes from the root to the  *)
(* current one locked in S; outs[l] counts the nodes seen on level l - 1.  *)
(***************************************************************************)

\* BTree::CollectStatisticalData() : root_.load; no epoch guard is created
StatsEnter(a) ==
    /\ th[a].pc = "idle"
    /\ th' = [th EXCEPT ![a] = [IdleTh EXCEPT !.pc = "stats", !.type = "stats", !.node = root]]
    /\ UNCHANGED <<root, nodes, page, pins, ref>>

\* stat_data with one more node on the given level
CountNode(outs, level) ==
    IF Len(outs) <= level THEN Append(outs, 1) ELSE [outs EXCEPT ![level + 1] = @ + 1]

\* the slot of parent p that designates child c (0: none)
SlotOfChild(p, c) ==
    IF \E i \in 1..Len(p.recs) : p.recs[i].v = c
    THEN CHOOSE i \in 1..Len(p.recs) : p.recs[i].v = c
    ELSE 0

\* CollectStatisticalData(node, level, stat_data) : LockS, the counters, and the
\* call for the first child; a leaf is unlocked at once
StatsVisit(a) ==
    LET t == th[a]
        n == nodes[t.node]
        counted == CountNode(t.outs, Len(t.stack))
    IN  /\ t.pc = "stats"
        /\ IF n.inner /\ n.recs # <<>>
           THEN /\ nodes' = [nodes EXCEPT ![t.node].s = @ + 1]
                /\ th' = [th EXCEPT ![a].stack = Append(t.stack, t.node),
                                    ![a].node = n.recs[1].v, ![a].outs = counted]
           ELSE /\ th' = [th EXCEPT ![a].pc = "stats_up", ![a].child = t.node,
                                    ![a].node = NULL, ![a].outs = counted]
                /\ UNCHANGED nodes
        /\ UNCHANGED <<root, page, pins, ref, ops>>

\* the return from the call for child t.child: the next child of the parent, or
\* UnlockS of the parent and the return from its call
StatsNext(a) ==
    LET t == th[a]
        pid == Back(t.stack)
        p == nodes[pid]
        i == SlotOfChild(p, t.child)
    IN  /\ t.pc = "stats_up"
        /\ IF t.stack = <<>>
           THEN /\ th' = [th EXCEPT ![a] = AtReturn([t EXCEPT !.ret = "kSuccess"])]
                /\ UNCHANGED nodes
           ELSE IF i # 0 /\ i < Len(p.recs)
           THEN /\ th' = [th EXCEPT ![a].pc = "stats", ![a].node = p.recs[i + 1].v,
                                    ![a].child = NULL]
                /\ UNCHANGED nodes
           ELSE /\ nodes' = [nodes EXCEPT ![pid].s = @ - 1]
                /\ th' = [th EXCEPT ![a].stack = Pop(t.stack), ![a].child = pid]
        /\ UNCHANGED <<root, page, pins, ref, ops>>

(***************************************************************************)
(* Return of a public operation, and the reclaimer.                        *)
(***************************************************************************)

\* the pages that the reclaimer may release once actor a has left its epoch
Reclaimable(a) == {n \in NodeIds : page[n] = "retired" /\ pins[n] \ {a} = {}}

\* the return of a public operation: its epoch guard is released, and the
\* reclaimer (EpochBasedGC) releases the retired pages no guard protects any more
Return(a) ==
    /\ th[a].pc = "done"
    /\ th' = [th EXCEPT ![a] = IdleTh]
    /\ pins' = [n \in NodeIds |-> pins[n] \ {a}]
    /\ page' = [n \in NodeIds |-> IF n \in Reclaimable(a) THEN "free" ELSE page[n]]
    /\ nodes' = [n \in NodeIds |-> IF n \in Reclaimable(a) THEN BlankNode ELSE nodes[n]]
    /\ UNCHANGED <<root, ref, ops>>

(***************************************************************************)
(* Bulkload.  The loader works on a heap h = [nodes, page, ok]: the pages  *)
(* and their allocation state, ok turning FALSE when the pages run out.    *)
(* Entries are pairs <<key, payload>>, node entries pairs <<key, page>>.   *)
(***************************************************************************)
HeapFree(h) == {n \in NodeIds : h.page[n] = "free"}

\* BTree::GetNodePage during Bulkload
GetNodePageIn(h) ==
    IF HeapFree(h) = {} THEN 1
    ELSE CHOOSE n \in HeapFree(h) : \A m \in HeapFree(h) : n <= m

\* Node::Bulkload : the node takes entries up to its capacity, the previous node
\* of the layer gets it as right sibling, and (first key, node) is the node's entry
NodeBulkload(h, id, ents, isInner, prev) ==
    LET cap == IF isInner THEN InnerCap ELSE LeafCap
        n == IF Len(ents) < cap THEN Len(ents) ELSE cap
        self == [BlankNode EXCEPT !.inner = isInner,
                                  !.recs = [i \in 1..n |-> Rec(ents[i][1], ents[i][2])]]
        linked == IF prev = NULL THEN h.nodes
                  ELSE [h.nodes EXCEPT ![prev].next = id, ![prev].high = ents[1][1]]
    IN  [h |-> [nodes |-> [linked EXCEPT ![id] = self],
                page |-> [h.page EXCEPT ![id] = "live"],
                ok |-> h.ok /\ HeapFree(h) # {}],
         rest |-> SubSeq(ents, n + 1, Len(ents)),
         entry |-> <<ents[1][1], id>>]

\* BTree::ConstructSingleLayer : one layer of nodes over the given entries
RECURSIVE ConstructLayer(_, _, _, _, _)
ConstructLayer(h, ents, isInner, prev, out) ==
    IF ents = <<>> THEN [h |-> h, nodes |-> out]
    ELSE LET id == GetNodePageIn(h)
             b == NodeBulkload(h, id, ents, isInner, prev)
         IN  ConstructLayer(b.h, b.rest, isInner, id, Append(out, b.entry))

ConstructSingleLayer(h, ents, isInner) == ConstructLayer(h, ents, isInner, NULL, <<>>)

\* the loop of BTree::BulkloadWithSingleThread that stacks inner layers while the
\* top layer has more than kInnerNodeCap nodes
RECURSIVE StackLayers(_, _)
StackLayers(r, height) ==
    IF Len(r.nodes) > InnerCap
    THEN StackLayers(ConstructSingleLayer(r.h, r.nodes, TRUE), height + 1)
    ELSE [h |-> r.h, nodes |-> r.nodes, height |-> height]

\* BTree::BulkloadWithSingleThread : a partial tree, its top layer and its height
BulkloadWithSingleThread(h, ents) == StackLayers(ConstructSingleLayer(h, ents, FALSE), 1)

\* the number of entries that Bulkload gives worker i (from 0) of threadNum
PartSize_Floor(recNum, threadNum, i) == recNum \div threadNum

PartSize(recNum, threadNum, i) == (recNum + i) \div threadNum

\* the partial trees of the workers i, i + 1, ..., each built from its range of
\* the entries
RECURSIVE PartialTrees(_, _, _, _, _, _)
PartialTrees(h, rest, recNum, threadNum, i, out) ==
    IF i = threadNum THEN [h |-> h, trees |-> out]
    ELSE LET n == PartSize(recNum, threadNum, i)
             p == BulkloadWithSingleThread(h, SubSeq(rest, 1, n))
         IN  PartialTrees(p.h, SubSeq(rest, n + 1, Len(rest)), recNum, threadNum, i + 1,
                          Append(out, [nodes |-> p.nodes, height |-> p.height]))

\* a Bulkload that aligns the partial trees to the height of the first of them
MaxHeight_First(trees) == IF trees = <<>> THEN 1 ELSE Head(trees).height

\* the height that Bulkload aligns the partial trees to
RECURSIVE MaxHeight(_)
MaxHeight(trees) ==
    IF trees = <<>> THEN 1
    ELSE LET m == MaxHeight(Tail(trees)) IN
         IF Head(trees).height > m THEN Head(trees).height ELSE m

\* a Bulkload that takes the partial trees as the workers left them
AlignHeight_None(h, pNodes, pHeight, height) == [h |-> h, nodes |-> pNodes]

\* the loop of Bulkload that puts inner layers on a partial tree that is too low
RECURSIVE AlignHeight(_, _, _, _)
AlignHeight(h, pNodes, pHeight, height) ==
    IF pHeight < height
    THEN LET r == ConstructSingleLayer(h, pNodes, TRUE) IN
         AlignHeight(r.h, r.nodes, pHeight + 1, height)
    ELSE [h |-> h, nodes |-> pNodes]

\* Node::LinkVerticalBorderNodes : the rightmost spine of the left tree gets the
\* leftmost spine of the right tree as right siblings, level by level
RECURSIVE LinkVerticalBorderNodes(_, _, _)
LinkVerticalBorderNodes(ns, l, r) ==
    LET linked == [ns EXCEPT ![l].next = r, ![l].high = ns[r].recs[1].k] IN
    IF ns[l].inner
    THEN LinkVerticalBorderNodes(linked, ns[l].recs[Len(ns[l].recs)].v, ns[r].recs[1].v)
    ELSE linked

\* the loop of Bulkload that aligns the partial trees, concatenates their top
\* layers and links each tree to the one before it
RECURSIVE AlignAndLink(_, _, _, _, _)
AlignAndLink(h, trees, height, prev, out) ==
    IF trees = <<>> THEN [h |-> h, nodes |-> out]
    ELSE LET p == Head(trees)
             w == AlignHeight(h, p.nodes, p.height, height)
             linked == IF prev = NULL THEN w.h
                       ELSE [w.h EXCEPT !.nodes =
                                LinkVerticalBorderNodes(w.h.nodes, prev, w.nodes[1][2])]
         IN  AlignAndLink(linked, Tail(trees), height, w.nodes[Len(w.nodes)][2],
                          out \o w.nodes)

\* the loop of Bulkload that creates upper layers until one node is left
RECURSIVE TopLayers(_)
TopLayers(r) ==
    IF Len(r.nodes) > 1 THEN TopLayers(ConstructSingleLayer(r.h, r.nodes, TRUE)) ELSE r

\* Node::RemoveLeftmostKeys : the first routing key of every inner node on the
\* leftmost spine stands for "anything below the next separator"
RECURSIVE RemoveLeftmostKeys(_, _)
RemoveLeftmostKeys(ns, n) ==
    IF ns[n].inner
    THEN RemoveLeftmostKeys([ns EXCEPT ![n].recs[1].k = MinKey], ns[n].recs[1].v)
    ELSE ns

\* BTree::Bulkload on non-empty entries: the heap after it and the new root
BulkloadTree(h, ents, threadNum) ==
    LET recNum == Len(ents)
        top == IF threadNum <= 1 \/ recNum < threadNum
               THEN LET r == BulkloadWithSingleThread(h, ents) IN [h |-> r.h, nodes |-> r.nodes]
               ELSE LET pt == PartialTrees(h, ents, recNum, threadNum, 0, <<>>) IN
                    AlignAndLink(pt.h, pt.trees, MaxHeight(pt.trees), NULL, <<>>)
        fin == TopLayers(top)
        new == fin.nodes[1][2]
    IN  [h |-> [fin.h EXCEPT !.nodes = RemoveLeftmostKeys(fin.h.nodes, new)], root |-> new]

\* the entries of a bulk load: the keys of a set in ascending order, each with a
\* payload that depends on its key
BulkPayload(k) == (k % MaxVal) + 1

RECURSIVE Entries(_)
Entries(S) ==
    IF S = {} THEN <<>>
    ELSE LET k == CHOOSE x \in S : \A y \in S : x <= y IN
         <<<<k, BulkPayload(k)>>>> \o Entries(S \ {k})

\* the tree is as BTree::BTree left it: one empty leaf, the root
Fresh ==
    /\ nodes[root] = BlankNode
    /\ page = [n \in NodeIds |-> IF n = root THEN "live" ELSE "free"]

\* BTree::Bulkload(entries, thread_num) on a fresh tree, no other call running.
\* The root pointer is overwritten: the page of the old root stays allocated
Bulkload(lists) ==
    /\ \A a \in Actors : th[a].pc = "idle"
    /\ ops.bulk = 0
    /\ Fresh
    /\ \E S \in lists, threadNum \in 1..MaxThreads :
          LET b == BulkloadTree([nodes |-> nodes, page |-> page, ok |-> TRUE],
                                Entries(S), threadNum)
          IN  /\ S # {}
              /\ b.h.ok
              /\ nodes' = b.h.nodes
              /\ page' = b.h.page
              /\ root' = b.root
              /\ ref' = [k \in DOMAIN ref |-> IF k \in S THEN BulkPayload(k) ELSE NoVal]
              /\ ops' = [ops EXCEPT !.bulk = threadNum]
    /\ UNCHANGED <<pins, th>>

(***************************************************************************)
(* The destructor.                                                         *)
(***************************************************************************)

\* the number of times that BTree::DeleteChildren(n) releases page x; the fuel
\* ends the walk should the child pointers lead round in a circle
RECURSIVE Releases(_, _, _)
RECURSIVE ChildReleases(_, _, _)
Releases(n, x, fuel) ==
    IF fuel = 0 THEN 0
    ELSE (IF n = x THEN 1 ELSE 0)
         + (IF nodes[n].inner THEN ChildReleases(nodes[n].recs, x, fuel - 1) ELSE 0)

ChildReleases(recs, x, fuel) ==
    IF recs = <<>> THEN 0
    ELSE Releases(Head(recs).v, x, fuel) + ChildReleases(Tail(recs), x, fuel)

\* what has become of page n when BTree::~BTree and the destructor of the
\* reclaimer are through: DeleteChildren releases what the root leads to, the
\* reclaimer what it was handed
AfterDestruct(n) ==
    LET byTree == Releases(root, n, MaxNodes)
        byGC == IF page[n] = "retired" \/ (page[n] = "free" /\ byTree > 0) THEN 1 ELSE 0
    IN  IF byTree + byGC = 0 THEN (IF page[n] = "free" THEN "free" ELSE "leaked")
        ELSE IF byTree + byGC = 1 THEN "released"
        ELSE "twice"

\* BTree::~BTree, with no call running
Destruct ==
    /\ \A a \in Actors : th[a].pc = "idle"
    /\ page' = [n \in NodeIds |-> AfterDestruct(n)]
    /\ th' = [a \in Actors |-> [IdleTh EXCEPT !.pc = "destructed"]]
    /\ UNCHANGED <<root, nodes, pins, ref, ops>>

Destructed == \A a \in Actors : th[a].pc = "destructed"

\* the page that the next step of actor a dereferences (NULL: none it holds no lock on)
NextDeref(a) ==
    LET t == th[a] IN
    CASE t.pc \in {"search", "searchw", "read", "update", "write", "insert", "delete",
                   "scan", "mg_parent"} -> t.node
      [] t.pc = "spn" -> t.snode
      [] t.pc = "stats" -> t.node
      [] t.pc = "stats_up" /\ t.stack # <<>> -> Back(t.stack)
      [] t.pc = "cs" /\ t.stack # <<>> -> IF t.node = NULL THEN Back(t.stack) ELSE t.node
      [] OTHER -> NULL

\* the dereference of a page that the reclaimer has released is undefined: besides
\* going on with the page as the reclaimer left it (the steps above), the call may
\* fault, and a Read may copy any payload out of memory that is in other use by now
UseAfterFree(a) ==
    LET t == th[a] IN
    /\ NextDeref(a) # NULL
    /\ page[NextDeref(a)] = "free"
    /\ \/ th' = [th EXCEPT ![a].pc = "crashed"]
       \/ /\ t.pc = "read"
          /\ \E v \in Vals :
                th' = [th EXCEPT ![a] =
                         AtReturn([Effect(t) EXCEPT !.ret = "kSuccess", !.out = v])]
    /\ UNCHANGED <<root, nodes, page, pins, ref, ops>>

(***************************************************************************)
(* Spec: one actor issues any sequence of calls on an initially empty tree.*)
(***************************************************************************)
Call(a) ==
    \/ \E k \in Keys, v \in Vals : \E type \in {"write", "insert", "update"} :
           Enter(a, type, k, v)
    \/ \E k \in Keys : \E type \in {"read", "delete"} : Enter(a, type, k, NoVal)
    \/ \E b \in Keys, e \in Keys : Enter(a, "scan", b, e)

SeqCall == Call(1) /\ UNCHANGED ops

Next ==
    \/ SeqCall
    \/ SearchLeafNode(1)
    \/ SearchLeafNodeForWrite(1)
    \/ Read(1)
    \/ Update(1)
    \/ Write(1)
    \/ Insert(1)
    \/ Delete(1)
    \/ TryRootSplitLoad(1)
    \/ TryRootSplitStore(1)
    \/ CompleteSplit(1)
    \/ MergeProbe(1)
    \/ MergeParent(1)
    \/ MergeNodes(1)
    \/ TryShrinkTree(1)
    \/ TryShrinkLoop(1)
    \/ TryShrinkStore(1)
    \/ Scan(1)
    \/ HasNext(1)
    \/ Advance(1)
    \/ Return(1)

Spec == Init /\ [][Next]_vars

(***************************************************************************)
(* SpecConc: actor 1 loads the tree with up to LoadOps Writes of payload 1,*)
(* one after the other; then every actor issues up to MaxOps calls, and    *)
(* the steps of the calls of different actors interleave.                  *)
(***************************************************************************)
Quiescent == \A a \in Actors : th[a].pc = "idle"

Loading == \A a \in Actors : ops.cnt[a] = 0

\* the record of a call of actor a in the concurrent phase
Issue(a, type, k) ==
    [ops EXCEPT !.cnt[a] = @ + 1, !.keys[a] = @ \cup {k}, !.kinds[a] = @ \cup {type}]

LoadCall ==
    /\ Loading
    /\ ops.load < LoadOps
    /\ \E k \in Keys : Enter(1, "write", k, 1)
    /\ ops' = [ops EXCEPT !.load = @ + 1]

ConcCall(a) ==
    /\ ops.cnt[a] < MaxOps
    /\ Loading => Quiescent
    /\ \/ \E k \in Keys, v \in Vals : \E type \in {"write", "insert", "update"} :
              Enter(a, type, k, v) /\ ops' = Issue(a, type, k)
       \/ \E k \in Keys : \E type \in {"read", "delete"} :
              Enter(a, type, k, NoVal) /\ ops' = Issue(a, type, k)

NextConc ==
    \/ LoadCall
    \/ \E a \in Actors :
          \/ ConcCall(a)
          \/ SearchLeafNode(a)
          \/ SearchLeafNodeForWrite(a)
          \/ Read(a)
          \/ Update(a)
          \/ Write(a)
          \/ Insert(a)
          \/ Delete(a)
          \/ TryRootSplitLoad(a)
          \/ TryRootSplitStore(a)
          \/ CompleteSplit(a)
          \/ SearchParentNode(a)
          \/ MergeProbe(a)
          \/ MergeParent(a)
          \/ MergeNodes(a)
          \/ TryShrinkTree(a)
          \/ TryShrinkLoop(a)
          \/ TryShrinkStore(a)
          \/ UseAfterFree(a)
          \/ Return(a)

SpecConc == Init /\ [][NextConc]_vars

(***************************************************************************)
(* SpecStat: after the load phase actor 1 issues up to MaxOps Writes or    *)
(* Deletes while actor 2 collects the statistics up to MaxOps times.       *)
(***************************************************************************)
StatWriterCall ==
    /\ ops.cnt[1] < MaxOps
    /\ Loading => Quiescent
    /\ \/ \E k \in Keys : Enter(1, "write", k, 1) /\ ops' = Issue(1, "write", k)
       \/ \E k \in Keys : Enter(1, "delete", k, NoVal) /\ ops' = Issue(1, "delete", k)

StatsCall ==
    /\ ops.cnt[2] < MaxOps
    /\ Loading => Quiescent
    /\ StatsEnter(2)
    /\ ops' = [ops EXCEPT !.cnt[2] = @ + 1, !.kinds[2] = @ \cup {"stats"}]

NextStat ==
    \/ LoadCall
    \/ StatWriterCall
    \/ StatsCall
    \/ StatsVisit(2)
    \/ StatsNext(2)
    \/ UseAfterFree(2)
    \/ SearchLeafNodeForWrite(1)
    \/ Write(1)
    \/ Delete(1)
    \/ TryRootSplitLoad(1)
    \/ TryRootSplitStore(1)
    \/ CompleteSplit(1)
    \/ MergeProbe(1)
    \/ MergeParent(1)
    \/ MergeNodes(1)
    \/ TryShrinkTree(1)
    \/ TryShrinkLoop(1)
    \/ TryShrinkStore(1)
    \/ \E a \in Actors : Return(a)

SpecStat == Init /\ [][NextStat]_vars

(***************************************************************************)
(* SpecBulk: a fresh tree is bulk-loaded with any subset of BulkKeys by    *)
(* 1..MaxThreads threads; one actor then reads and scans it.               *)
(***************************************************************************)
BulkBulkload == Bulkload(SUBSET BulkKeys)

BulkCall ==
    /\ ops.bulk # 0
    /\ \/ \E k \in BulkKeys : Enter(1, "read", k, NoVal)
       \/ \E b \in BulkKeys, e \in BulkKeys : b <= e /\ Enter(1, "scan", b, e)
    /\ UNCHANGED ops

NextBulk ==
    \/ BulkBulkload
    \/ BulkCall
    \/ SearchLeafNode(1)
    \/ Read(1)
    \/ Scan(1)
    \/ HasNext(1)
    \/ Advance(1)
    \/ Return(1)

SpecBulk == Init /\ [][NextBulk]_vars

(***************************************************************************)
(* SpecIter: after the load phase actor 1 issues up to MaxOps Scans, whose *)
(* cursor it may drop at any point, while actor 2 issues up to MaxOps      *)
(* Writes or Deletes.                                                      *)
(***************************************************************************)
IterScanCall ==
    /\ ops.cnt[1] < MaxOps
    /\ Loading => Quiescent
    /\ \E b \in Keys, e \in Keys : Enter(1, "scan", b, e) /\ ops' = Issue(1, "scan", b)

IterWriterCall ==
    /\ ops.cnt[2] < MaxOps
    /\ Loading => Quiescent
    /\ \/ \E k \in Keys : Enter(2, "write", k, 2) /\ ops' = Issue(2, "write", k)
       \/ \E k \in Keys : Enter(2, "delete", k, NoVal) /\ ops' = Issue(2, "delete", k)

NextIter ==
    \/ LoadCall
    \/ IterScanCall
    \/ IterWriterCall
    \/ SearchLeafNode(1)
    \/ Scan(1)
    \/ HasNext(1)
    \/ HasNextAtEnd(1)
    \/ Advance(1)
    \/ DropIterator(1)
    \/ UseAfterFree(1)
    \/ \E a \in Actors :
          \/ SearchLeafNodeForWrite(a)
          \/ Write(a)
          \/ Delete(a)
          \/ TryRootSplitLoad(a)
          \/ TryRootSplitStore(a)
          \/ CompleteSplit(a)
          \/ MergeProbe(a)
          \/ MergeParent(a)
          \/ MergeNodes(a)
          \/ TryShrinkTree(a)
          \/ TryShrinkLoop(a)
          \/ TryShrinkStore(a)
          \/ Return(a)

SpecIter == Init /\ [][NextIter]_vars

(***************************************************************************)
(* SpecLife: the life of a tree in the hands of one actor.  A fresh tree   *)
(* may be bulk-loaded (with any subset of Keys, or with all of BulkKeys);  *)
(* Writes, Inserts and Deletes of Keys follow in any number;               *)
(* the destructor ends it.                                                 *)
(***************************************************************************)
LifeCall ==
    /\ \/ \E k \in Keys : \E type \in {"write", "insert"} : Enter(1, type, k, 1)
       \/ \E k \in Keys : Enter(1, "delete", k, NoVal)
    /\ UNCHANGED ops

LifeBulkload == Bulkload((SUBSET Keys) \cup {BulkKeys})

NextLife ==
    \/ LifeCall
    \/ LifeBulkload
    \/ Destruct
    \/ SearchLeafNodeForWrite(1)
    \/ Write(1)
    \/ Insert(1)
    \/ Delete(1)
    \/ TryRootSplitLoad(1)
    \/ TryRootSplitStore(1)
    \/ CompleteSplit(1)
    \/ MergeProbe(1)
    \/ MergeParent(1)
    \/ MergeNodes(1)
    \/ TryShrinkTree(1)
    \/ TryShrinkLoop(1)
    \/ TryShrinkStore(1)
    \/ Return(1)

SpecLife == Init /\ [][NextLife]_vars

(***************************************************************************)
(* SpecFair: after the load phase every actor issues up to MaxOps Writes   *)
(* or Deletes; every actor that can take a step of its call eventually     *)
(* takes one (the threads are scheduled by the operating system, and a     *)
(* thread that waits for a lock or sleeps in a back-off runs again).       *)
(***************************************************************************)
FairCall(a) ==
    /\ ops.cnt[a] < MaxOps
    /\ Loading => Quiescent
    /\ \/ \E k \in Keys : Enter(a, "write", k, 1) /\ ops' = Issue(a, "write", k)
       \/ \E k \in Keys : Enter(a, "delete", k, NoVal) /\ ops' = Issue(a, "delete", k)

\* the steps of actor a inside a call, up to its return
ActorStep(a) ==
    \/ SearchLeafNodeForWrite(a)
    \/ Write(a)
    \/ Delete(a)
    \/ TryRootSplitLoad(a)
    \/ TryRootSplitStore(a)
    \/ CompleteSplit(a)
    \/ SearchParentNode(a)
    \/ MergeProbe(a)
    \/ MergeParent(a)
    \/ MergeNodes(a)
    \/ TryShrinkTree(a)
    \/ TryShrinkLoop(a)
    \/ TryShrinkStore(a)
    \/ UseAfterFree(a)
    \/ Return(a)

NextFair ==
    \/ LoadCall
    \/ \E a \in Actors : FairCall(a)
    \/ \E a \in Actors : ActorStep(a)

SpecFair == Init /\ [][NextFair]_vars /\ \A a \in Actors : WF_vars(ActorStep(a))

(***************************************************************************)
(* SpecShrink: actor 1 builds the tree with up to ShrinkLoadOps Writes and *)
(* Deletes, one after the other; then every actor issues up to MaxOps      *)
(* Deletes, whose merges and root changes interleave.                      *)
(***************************************************************************)
ShrinkLoadCall ==
    /\ Loading
    /\ ops.load < ShrinkLoadOps
    /\ \/ \E k \in Keys : Enter(1, "write", k, 1)
       \/ \E k \in Keys : Enter(1, "delete", k, NoVal)
    /\ ops' = [ops EXCEPT !.load = @ + 1]

ShrinkCall(a) ==
    /\ ops.cnt[a] < MaxOps
    /\ Loading => Quiescent
    /\ \E k \in Keys : Enter(a, "delete", k, NoVal) /\ ops' = Issue(a, "delete", k)

NextShrink ==
    \/ ShrinkLoadCall
    \/ \E a \in Actors : ShrinkCall(a)
    \/ \E a \in Actors :
          \/ SearchLeafNodeForWrite(a)
          \/ Write(a)
          \/ Delete(a)
          \/ TryRootSplitLoad(a)
          \/ TryRootSplitStore(a)
          \/ CompleteSplit(a)
          \/ MergeProbe(a)
          \/ MergeParent(a)
          \/ MergeNodes(a)
          \/ TryShrinkTree(a)
          \/ TryShrinkLoop(a)
          \/ TryShrinkStore(a)
          \/ UseAfterFree(a)
          \/ Return(a)

SpecShrink == Init /\ [][NextShrink]_vars

(***************************************************************************)
(* A call that runs alone, as a function of the tree: the descent of       *)
(* SearchLeafNode followed by the leaf operation.                          *)
(***************************************************************************)

\* BTree::SearchLeafNode run to its end on the current tree (NULL: no leaf found)
RECURSIVE LeafOf(_, _, _)
LeafOf(n, k, fuel) ==
    IF fuel = 0 \/ n = NULL THEN NULL
    ELSE LET c == CheckKeyRange(nodes[n], k) IN
         IF c = "null" THEN NULL
         ELSE IF c = "hop" THEN LeafOf(nodes[n].next, k, fuel - 1)
         ELSE IF nodes[n].inner
         THEN LeafOf(nodes[n].recs[ChildPos(nodes[n].recs, k)].v, k, fuel - 1)
         ELSE n

\* BTree::Read run alone on the current tree
ReadAlone(k) ==
    LET leaf == LeafOf(root, k, 2 * MaxNodes)
        r == NodeRead(nodes[leaf], k)
    IN  IF leaf = NULL THEN NoVal ELSE ReadResult(r.rc, r.out)

\* BTree::Delete run alone on the current tree: its return code
DeleteAlone(k) ==
    LET leaf == LeafOf(root, k, 2 * MaxNodes) IN
    IF leaf = NULL THEN "none" ELSE DeleteReturn(NodeDelete(nodes[leaf], k).rc)

\* C1: every call of a single actor returns what the reference map returns, and in
\* every state between two calls Read finds exactly the reference map's content.
C1_Refinement ==
    /\ th[1].pc # "crashed"
    /\ th[1].pc = "done" /\ th[1].type # "scan" => th[1].ret = th[1].exp /\ th[1].out = th[1].expOut
    /\ th[1].pc = "idle" => \A k \in Keys : ReadAlone(k) = ref[k]

\* a read that found its key in a tree of three levels, after a merge
C1_Witness ==
    /\ th[1].pc = "done" /\ th[1].type = "read" /\ th[1].out # NoVal
    /\ nodes[root].inner /\ nodes[nodes[root].recs[1].v].inner

\* what a scan with closed bounds owes: the reference map's pairs in [b, e], ascending
RECURSIVE RefRange(_, _)
RefRange(b, e) ==
    IF b > e THEN <<>>
    ELSE (IF ref[b] # NoVal THEN <<<<b, ref[b]>>>> ELSE <<>>) \o RefRange(b + 1, e)

\* C5: with a single actor, the cursor of Scan(b, e) with closed bounds yields
\* exactly the live records with key in [b, e], once each, in ascending key order.
C5_ScanRange ==
    th[1].pc = "done" /\ th[1].type = "scan" => th[1].outs = RefRange(th[1].key, th[1].val)

\* a finished scan that crossed three leaves and skipped a deleted slot on its way
C5_Witness ==
    /\ th[1].pc = "done" /\ th[1].type = "scan" /\ Len(th[1].outs) = 3
    /\ \E n \in NodeIds : page[n] = "live" /\ \E i \in 1..Len(nodes[n].recs) :
           nodes[n].recs[i].d /\ th[1].key <= nodes[n].recs[i].k /\ nodes[n].recs[i].k <= th[1].val
    /\ nodes[root].inner /\ nodes[nodes[root].recs[1].v].inner

\* C2: Write(K, V) returns success and a Read(K) that follows it returns V, whether
\* K was absent or present, and also when the Write went through a leaf split.
C2_WriteThenRead ==
    th[1].pc = "done" /\ th[1].type = "write" =>
        th[1].ret = "kSuccess" /\ ReadAlone(th[1].key) = th[1].val

\* a Write that found its leaf full and split it
C2_Witness == th[1].pc = "done" /\ th[1].type = "write" /\ th[1].split

\* C3: after a successful Delete(K), Read(K) finds nothing and a second Delete(K)
\* returns key-absent, also when the first Delete merged nodes or shrank the tree.
C3_DeleteThenAbsent ==
    th[1].pc = "done" /\ th[1].type = "delete" /\ th[1].ret = "kSuccess" =>
        ReadAlone(th[1].key) = NoVal /\ DeleteAlone(th[1].key) = "kKeyNotExist"

\* a Delete whose merge went up to the root and shrank the tree to a single leaf
C3_Witness ==
    /\ th[1].pc = "done" /\ th[1].type = "delete" /\ th[1].merged
    /\ ~nodes[root].inner
    /\ \E k \in Keys : ref[k] # NoVal

\* the number of live records of the leaf that covers key k
LeafFill(k) == Len(LiveRecs(nodes[LeafOf(root, k, 2 * MaxNodes)].recs))

\* C4: Insert(K, V) on a tree that holds K with payload P changes no page and not
\* the root, starts no split, returns key-exists with P, and Read(K) still gives P.
C4_InsertExisting ==
    /\ [][th[1].type = "insert" /\ th[1].had # NoVal =>
            /\ nodes' = nodes /\ root' = root /\ page' = page
            /\ th'[1].pc \notin {"cs", "cs_store", "cs_null", "spn", "crashed"}
            /\ th'[1].pc = "done" =>
                   th'[1].ret = "kKeyExist" /\ th'[1].out = th[1].had]_vars
    /\ [](th[1].pc = "done" /\ th[1].type = "insert" /\ th[1].ret = "kKeyExist" =>
            ReadAlone(th[1].key) = th[1].out /\ th[1].out # NoVal)

\* an Insert of a present key into a full leaf: one more record would have split it
C4_Witness ==
    /\ th[1].pc = "done" /\ th[1].type = "insert" /\ th[1].ret = "kKeyExist"
    /\ th[1].out # th[1].val
    /\ LeafFill(th[1].key) = LeafCap

(***************************************************************************)
(* Concurrent calls (SpecConc).                                            *)
(***************************************************************************)
PointOps == {"read", "write", "insert", "update", "delete"}

Returned(a) == th[a].pc = "done" /\ th[a].type \in PointOps

\* all the concurrent calls issued so far are calls on one key
OneKey == Cardinality(UNION {ops.keys[a] : a \in Actors}) <= 1

\* C6: when the concurrent calls of the actors are calls on one key K, they are
\* linearizable: every call that returned gave the code and the payload of the
\* reference map at the step at which it worked on the leaf of K, a step inside the
\* call at which a mutation holds the leaf's lock.
C6_Linearizable ==
    OneKey =>
        \A a \in Actors :
            Returned(a) => th[a].ret = th[a].exp /\ th[a].out = th[a].expOut

\* two Inserts of an absent key that overlapped: one inserted, the other got its payload
C6_Witness ==
    /\ OneKey
    /\ Returned(1) /\ Returned(2)
    /\ th[1].type = "insert" /\ th[2].type = "insert"
    /\ th[1].had = NoVal /\ th[2].had = NoVal
    /\ th[1].ret = "kKeyExist" /\ th[2].ret = "kSuccess" /\ th[1].out = th[2].val

\* C7: a Read(K) that runs concurrently with the writers of K returns a payload
\* that K had at some instant during the call, or absent if K was absent at some
\* instant during the call.
C7_ReadCommitted ==
    OneKey =>
        \A a \in Actors :
            th[a].pc = "done" /\ th[a].type = "read" => th[a].out \in th[a].seen

\* a Read that began when K held one payload and returned the one a writer put meanwhile
C7_Witness ==
    /\ OneKey
    /\ \E a \in Actors :
        /\ th[a].pc = "done" /\ th[a].type = "read"
        /\ th[a].had # NoVal /\ th[a].out # NoVal /\ th[a].out # th[a].had

\* C8: a Read(K) of a key that is present and that no other actor has called an
\* operation on returns K's payload, whatever splits, merges and root changes the
\* other actors ran meanwhile.
C8_ReadStableKey ==
    \A a \in Actors :
        /\ th[a].pc = "done" /\ th[a].type = "read" /\ th[a].had # NoVal
        /\ \A b \in Actors \ {a} : th[a].key \notin ops.keys[b]
        => th[a].out = th[a].had

\* the actors' concurrent calls are Writes, Inserts and Deletes on disjoint key sets
DisjointWriters ==
    /\ \A a \in Actors : ops.kinds[a] \subseteq WriteOps
    /\ \A a \in Actors : \A b \in Actors \ {a} : ops.keys[a] \cap ops.keys[b] = {}

\* C9: writers on pairwise disjoint key sets: every call returns, with the code it
\* gives when it runs alone, and once all calls have returned every key reads as
\* its last Write, Insert or Delete left it.
C9_DisjointKeys ==
    DisjointWriters =>
        /\ \A a \in Actors : th[a].pc # "crashed"
        /\ \A a \in Actors : Returned(a) => th[a].ret = th[a].exp
        /\ (\A a \in Actors : th[a].pc \in {"idle", "done"}) =>
               \A k \in Keys : ReadAlone(k) = ref[k]

\* C10: a Write, Insert or Delete whose leaf is flagged deleted when it comes to
\* lock it neither reads nor changes a page: its next step is the restart of the
\* descent from the root, with an empty stack.
C10_DeletedLeafRestart ==
    [][\A a \in Actors :
          th[a].pc \in WriteOps /\ nodes[th[a].node].removed /\ th'[a] # th[a] =>
              /\ nodes' = nodes
              /\ th'[a].pc = "searchw" /\ th'[a].stack = <<>> /\ th'[a].node = root]_vars

(***************************************************************************)
(* The life of the pages (SpecLife).                                       *)
(***************************************************************************)

\* C11: after the destructor and the reclaimer's drain, every page that was ever
\* allocated has been released exactly once: none is leaked, none released twice,
\* also when a Bulkload replaced the root.
C11_ReleasedOnce ==
    Destructed => \A n \in NodeIds : page[n] \in {"free", "released"}

(***************************************************************************)
(* Epoch guards (SpecStat).                                                *)
(***************************************************************************)

\* C12: an actor inside a public operation that is about to dereference a node
\* pointer holds an epoch guard (Read, Scan and its cursor, Write, Insert, Update,
\* Delete, CollectStatisticalData).
C12_GuardHeld ==
    \A a \in Actors : NextDeref(a) # NULL => a \in Guarded

(***************************************************************************)
(* Bulkload (SpecBulk).                                                    *)
(***************************************************************************)

\* the leftmost leaf below node n
RECURSIVE LeftmostLeaf(_, _)
LeftmostLeaf(n, fuel) ==
    IF fuel = 0 \/ ~nodes[n].inner \/ nodes[n].recs = <<>> THEN n
    ELSE LeftmostLeaf(nodes[n].recs[1].v, fuel - 1)

\* the records along the sibling chain that starts at leaf n
RECURSIVE LeafChain(_, _)
LeafChain(n, fuel) ==
    IF fuel = 0 \/ n = NULL THEN <<>>
    ELSE [i \in 1..Len(nodes[n].recs) |-> <<nodes[n].recs[i].k, nodes[n].recs[i].v>>]
         \o LeafChain(nodes[n].next, fuel - 1)

\* C13: after Bulkload of an ascending duplicate-free entry list on a fresh tree,
\* with any thread count, Read of every key and Scan over every range return what
\* the reference map of the entries returns (what a tree built by inserting them
\* one by one returns, C1 and C5), and the leaf sibling chain holds the entries in
\* ascending key order, none missing, none repeated.
C13_BulkloadAsInserts ==
    ops.bulk # 0 =>
        /\ th[1].pc # "crashed"
        /\ th[1].pc = "done" /\ th[1].type = "read" => th[1].out = ref[th[1].key]
        /\ th[1].pc = "done" /\ th[1].type = "scan" => th[1].outs = RefRange(th[1].key, th[1].val)
        /\ th[1].pc = "idle" =>
               LeafChain(LeftmostLeaf(root, MaxNodes), MaxNodes) = RefRange(1, MaxBulk)

\* a finished scan of all MaxBulk entries over two partial trees of unequal height
C13_Witness ==
    /\ ops.bulk = 2
    /\ th[1].pc = "done" /\ th[1].type = "scan" /\ Len(th[1].outs) = MaxBulk
    /\ nodes[root].inner /\ nodes[nodes[root].recs[1].v].inner
    /\ nodes[nodes[nodes[root].recs[1].v].recs[1].v].inner

(***************************************************************************)
(* The cursor's lock (SpecIter).                                           *)
(***************************************************************************)

\* the cursors that stand on leaf n
CursorsOn(n) == {a \in Actors : th[a].pc \in {"hasnext", "deref"} /\ th[a].node = n}

\* C14: the shared locks on a leaf are those of the cursors that stand on it: a
\* cursor that was dropped before it was exhausted holds none, and a writer can
\* lock the leaf exclusively once no cursor stands on it.
C14_DropReleases ==
    \A n \in NodeIds :
        /\ nodes[n].s = Cardinality(CursorsOn(n))
        /\ CursorsOn(n) = {} /\ nodes[n].six = 0 => CanLockX(nodes[n])

(***************************************************************************)
(* The shape of the tree (SpecLife).                                       *)
(***************************************************************************)

\* the height of node n: 0 for a leaf, one more than its first child's for an
\* inner node
RECURSIVE Height(_, _)
Height(n, fuel) ==
    IF fuel = 0 \/ ~nodes[n].inner THEN 0
    ELSE IF nodes[n].recs = <<>> THEN 1
    ELSE 1 + Height(nodes[n].recs[1].v, fuel - 1)

\* below n every inner node of height h has only children of height h - 1
RECURSIVE Balanced(_, _)
Balanced(n, fuel) ==
    \/ fuel = 0
    \/ ~nodes[n].inner
    \/ \A i \in 1..Len(nodes[n].recs) :
          LET c == nodes[n].recs[i].v IN
          /\ c # NULL
          /\ page[c] = "live"
          /\ Height(c, MaxNodes) = Height(n, MaxNodes) - 1
          /\ Balanced(c, fuel - 1)

RECURSIVE ReachFrom(_, _)
ReachFrom(S, fuel) ==
    LET step == S \cup {nodes[n].next : n \in S}
                  \cup UNION {{nodes[n].recs[i].v : i \in 1..Len(nodes[n].recs)} :
                                 n \in {m \in S : nodes[m].inner}}
        found == step \ {NULL}
    IN  IF fuel = 0 \/ found = S THEN S ELSE ReachFrom(found, fuel - 1)

Reachable == ReachFrom({root}, MaxNodes)

\* the keys of the live records of node n
LiveKeys(n) == {nodes[n].recs[i].k : i \in {j \in 1..Len(nodes[n].recs) : ~nodes[n].recs[j].d}}

\* C16: for every node N reachable from the root that has a right sibling R, every
\* live key of N is below N's high key and every live key of R is at or above it.
C16_HighKeyOrder ==
    \A n \in Reachable :
        nodes[n].next # NULL =>
            /\ \A k \in LiveKeys(n) : k < nodes[n].high
            /\ \A k \in LiveKeys(nodes[n].next) : nodes[n].high <= k

\* a leaf split whose record went into the right half, the right half reachable
\* through the sibling pointer only, in a tree of three levels
C16_Witness ==
    /\ th[1].pc = "cs" /\ th[1].split /\ th[1].lch # NULL
    /\ ~nodes[th[1].lch].inner
    /\ th[1].key >= nodes[th[1].lch].high
    /\ nodes[th[1].lch].next = th[1].rch /\ th[1].rch \in Reachable
    /\ nodes[root].inner /\ nodes[nodes[root].recs[1].v].inner

(***************************************************************************)
(* Retirement and the root pointer (SpecConc).                             *)
(***************************************************************************)

\* C17: at the step that hands a node to the reclaimer the node is unlinked: after
\* the step neither the root pointer nor a routing entry or sibling pointer of a
\* node reachable from the root designates it.
C17_UnlinkedAtRetirement ==
    [][\A n \in NodeIds :
          page[n] = "live" /\ page'[n] = "retired" => n \notin Reachable']_vars

\* C18: the root pointer is published by compare-and-publish: at the step at which
\* TryRootSplit stores the new root the root pointer designates the split-left
\* node, and at the step at which TryShrinkTree stores the sole child it
\* designates the old root that the actor tested.
C18_CompareAndPublish ==
    [][\A a \in Actors :
          /\ th[a].pc = "cs_store" /\ th'[a].pc # "cs_store" => root = th[a].lch
          /\ th[a].pc = "shrink_store" /\ th'[a].pc # "shrink_store" => root = th[a].child]_vars

(***************************************************************************)
(* Split completion (Spec).                                                *)
(***************************************************************************)

\* the pages that child pointers alone lead to from the pages in S
RECURSIVE BelowFrom(_, _)
BelowFrom(S, fuel) ==
    LET found == S \cup UNION {{nodes[n].recs[i].v : i \in 1..Len(nodes[n].recs)} :
                                 n \in {m \in S : nodes[m].inner}}
    IN  IF fuel = 0 \/ found = S THEN S ELSE BelowFrom(found, fuel - 1)

\* the routing entries, of inner nodes below the root, that designate page n
RoutingEntriesTo(n) ==
    {e \in {m \in BelowFrom({root}, MaxNodes) : nodes[m].inner} \X (1..InnerCap) :
        e[2] <= Len(nodes[e[1]].recs) /\ nodes[e[1]].recs[e[2]].v = n}

\* the pages that a descent for key k goes through when it follows child pointers
\* only (Node::SearchChild at every inner node, no sibling hop)
RECURSIVE ChildDescent(_, _, _)
ChildDescent(n, k, fuel) ==
    IF fuel = 0 \/ ~nodes[n].inner \/ nodes[n].recs = <<>> THEN {n}
    ELSE {n} \cup ChildDescent(nodes[n].recs[ChildPos(nodes[n].recs, k)].v, k, fuel - 1)

\* C19: when a call whose split cascaded has returned, every node that a split of
\* the cascade created is designated by exactly one routing entry of a node below
\* the root, and the descent for any key of such a node reaches it by child
\* pointers alone.
C19_CascadeInstalled ==
    th[1].pc = "done" =>
        \A n \in th[1].made :
            /\ Cardinality(RoutingEntriesTo(n)) = 1
            /\ \A k \in LiveKeys(n) : n \in ChildDescent(root, k, MaxNodes)

\* a returned Write or Insert whose leaf split found the parent full, split it and
\* entered the new leaf into the right half
C19_Witness ==
    /\ th[1].pc = "done" /\ Cardinality(th[1].made) >= 2
    /\ \E n \in th[1].made, p \in th[1].made :
          /\ ~nodes[n].inner /\ nodes[p].inner
          /\ \E i \in 1..Len(nodes[p].recs) : nodes[p].recs[i].v = n

\* the keys of the live records of a node
KeysOf(n) == {n.recs[i].k : i \in {j \in 1..Len(n.recs) : ~n.recs[j].d}}

\* Node::SearchChild on inner node p of the heap ns leads every key of child c to c
RoutesTo(ns, p, c) ==
    /\ ns[p].inner
    /\ \A k \in KeysOf(ns[c]) : ns[p].recs[ChildPos(ns[p].recs, k)].v = c

\* C20: the separator that a split of Write, Insert or CompleteSplit passes upward
\* is above every live key of the left node and at or below every live key of the
\* right node, whichever half received the record; and once the entry is in the
\* parent (or in the new root), SearchChild leads every key of the left node to
\* the left node and every key of the right node to the right node.
C20_Separator ==
    [][/\ th'[1].pc = "cs" /\ th'[1].made # th[1].made =>
             /\ \A k \in KeysOf(nodes'[th'[1].lch]) : k < th'[1].skey
             /\ \A k \in KeysOf(nodes'[th'[1].rch]) : th'[1].skey <= k
       /\ th[1].pc \in {"cs", "cs_store"} /\ nodes' # nodes =>
             /\ \E p \in NodeIds : page'[p] = "live" /\ RoutesTo(nodes', p, th[1].lch)
             /\ \E p \in NodeIds : page'[p] = "live" /\ RoutesTo(nodes', p, th[1].rch)]_vars

\* an Insert below a parent whose leaf split put the record into the right half
C20_Witness ==
    /\ th[1].pc = "cs" /\ th[1].type = "insert" /\ th[1].made # {}
    /\ th[1].stack # <<>>
    /\ ~nodes[th[1].lch].inner
    /\ th[1].key >= th[1].skey
    /\ th[1].key \in KeysOf(nodes[th[1].rch])

(***************************************************************************)
(* The fresh descent of CompleteSplit (SpecConc).                          *)
(***************************************************************************)

\* the pages on the sibling chain that starts at page n
RECURSIVE SiblingsFrom(_, _)
SiblingsFrom(n, fuel) ==
    IF fuel = 0 \/ n = NULL THEN {}
    ELSE {n} \cup SiblingsFrom(nodes[n].next, fuel - 1)

\* inner node p designates a node from which the sibling chain leads to page c
IsParentLevelOf(p, c) ==
    /\ nodes[p].inner
    /\ \E i \in 1..Len(nodes[p].recs) : c \in SiblingsFrom(nodes[p].recs[i].v, MaxNodes)

\* C21: a CompleteSplit that found its stack empty and the root pointer changed
\* goes through SearchParentNode: the descent ends without a fault; the node it
\* leaves on top of the stack is on the level above the split pair and leads to
\* both nodes of the pair (while the pair has no parent yet the stack stays empty
\* and CompleteSplit tries again); and when the call has returned every node its
\* splits created is designated by exactly one routing entry of a node below the
\* root.
C21_FreshDescent ==
    /\ [][\A a \in Actors :
            th[a].pc = "spn" /\ th[a].fresh /\ th'[a].pc # "spn" =>
                /\ th'[a].pc = "cs"
                /\ th'[a].stack # <<>> =>
                       /\ IsParentLevelOf(Back(th'[a].stack), th[a].lch)
                       /\ IsParentLevelOf(Back(th'[a].stack), th[a].rch)]_vars
    /\ [](\A a \in Actors :
            th[a].fresh /\ th[a].pc = "done" =>
                \A n \in th[a].made : Cardinality(RoutingEntriesTo(n)) = 1)

(***************************************************************************)
(* Merge (Spec, SpecConc).                                                 *)
(***************************************************************************)

\* the live records of the leaves reachable from the root: <<page, slot>>
LiveSlots ==
    {e \in Reachable \X (1..(LeafCap + 1)) :
        /\ ~nodes[e[1]].inner
        /\ e[2] <= Len(nodes[e[1]].recs)
        /\ ~nodes[e[1]].recs[e[2]].d}

\* the multiset of the live records reachable from the root: how many there are
\* of every key and payload
LiveBag ==
    LET live == LiveSlots IN
    [kv \in (1..(KeyInf - 1)) \X Vals |->
        Cardinality({e \in live : /\ nodes[e[1]].recs[e[2]].k = kv[1]
                                  /\ nodes[e[1]].recs[e[2]].v = kv[2]})]

\* C22: the step of Merge that follows a DeleteChild reporting completed or
\* need-merge moves every live record of the right node into the left node, in
\* order behind the left node's own; the left node adopts the right node's high
\* key and right sibling; the right node, allocated and not yet retired, is
\* flagged deleted and handed to the reclaimer; and the multiset of the live
\* records reachable from the root is the same before and after the step.
C22_MergePreserves ==
    [][\A a \in Actors :
          th[a].pc = "mg_merge" /\ th'[a].pc # "mg_merge" =>
              LET l == th[a].lch
                  r == th[a].rch
              IN  /\ nodes'[l].recs = LiveRecs(nodes[l].recs) \o LiveRecs(nodes[r].recs)
                  /\ nodes'[l].high = nodes[r].high
                  /\ nodes'[l].next = nodes[r].next
                  /\ page[r] = "live" /\ page'[r] = "retired" /\ nodes'[r].removed
                  /\ LiveBag' = LiveBag]_vars

\* a Delete has merged two inner nodes after it merged two leaves: the left inner
\* node holds the routing entries of both
C22_Witness ==
    /\ th[1].pc = "shrink" /\ th[1].merged
    /\ nodes[th[1].lch].inner /\ Len(nodes[th[1].lch].recs) = 2
    /\ \E k \in Keys : ref[k] # NoVal

(***************************************************************************)
(* Termination of the structure modifications (SpecFair).                  *)
(***************************************************************************)

\* actor a is inside CompleteSplit, Merge or one of the functions they call
InSMO(a) ==
    th[a].pc \in {"cs", "cs_null", "cs_store", "spn", "mg", "mg_parent", "mg_merge",
                  "shrink", "shrink_rm", "shrink_store"}

\* actor a is at GetMergeableSiblingNode, which takes the right sibling's SIX lock,
\* and holds that lock already
BlockedOnOwnLock(a) ==
    /\ th[a].pc = "mg"
    /\ nodes[th[a].lch].next # NULL
    /\ nodes[nodes[th[a].lch].next].six = a

\* C23: under fair scheduling every call of Merge and of CompleteSplit returns,
\* whatever retries it makes (need-retry of the parent, empty stack, deleted
\* parent), and no retry leaves the actor waiting for a lock it holds itself.
C23_SMOTerminates ==
    /\ \A a \in Actors : [](InSMO(a) => <>(th[a].pc = "done"))
    /\ [](\A a \in Actors : ~BlockedOnOwnLock(a))

(***************************************************************************)
(* The shrinking of the tree (Spec, SpecConc).                             *)
(***************************************************************************)

\* C24: when the merge left the node that TryShrinkTree is called for as the
\* root with one child, the loop removes it, and after it every sole child that
\* is an inner node with one child; every root the loop removes is allocated and
\* not yet retired when it is handed to the reclaimer; the node stored as the new
\* root is the child the loop ended on, a leaf or an inner node with at least
\* two children; and the store leaves the multiset of the live records
\* reachable from the root as it was.
C24_ShrinkTree ==
    [][\A a \in Actors :
          /\ th[a].pc = "shrink" /\ th'[a].pc # "shrink" =>
                IF th[a].node = root /\ Len(nodes[root].recs) = 1
                THEN th'[a].pc = "shrink_rm" /\ page[root] = "live" /\ page'[root] = "retired"
                ELSE root' = root /\ page' = page
          /\ th[a].pc = "shrink_rm" /\ th'[a] # th[a] =>
                /\ th'[a].node = SoleChild(th[a].node)
                /\ nodes'[th[a].node].removed
                /\ IF nodes[th'[a].node].inner /\ Len(nodes[th'[a].node].recs) = 1
                   THEN /\ th'[a].pc = "shrink_rm"
                        /\ page[th'[a].node] = "live" /\ page'[th'[a].node] = "retired"
                   ELSE th'[a].pc = "shrink_store" /\ page' = page
          /\ th[a].pc = "shrink_store" /\ th'[a].pc # "shrink_store" =>
                /\ root' = th[a].node
                /\ page'[root'] = "live"
                /\ ~nodes'[root'].inner \/ Len(nodes'[root'].recs) >= 2
                /\ LiveBag' = LiveBag]_vars

\* the loop of TryShrinkTree has removed two roots, one above the other, and the
\* actor is about to store the child of the second as the root
C24_Witness ==
    \E a \in Actors : \E n \in NodeIds :
        /\ th[a].pc = "shrink_store" /\ root = th[a].child
        /\ nodes[root].inner /\ Len(nodes[root].recs) = 1
        /\ nodes[n].inner /\ Len(nodes[n].recs) = 1
        /\ n # root /\ SoleChild(root) = n /\ SoleChild(n) = th[a].node
        /\ page[root] = "retired" /\ page[n] = "retired"
        /\ nodes[root].removed /\ nodes[n].removed
        /\ page[th[a].node] = "live"

(***************************************************************************)
(* C25: occupancy of the nodes between structure modifications              *)
(***************************************************************************)

\* C25: whenever no call is in progress, every node reachable from the root
\* other than the root holds at least one live record.
C25_NoEmptyNode ==
    Quiescent =>
        \A n \in Reachable \ {root} :
            IF nodes[n].inner THEN Len(nodes[n].recs) >= 1 ELSE LiveKeys(n) # {}

(***************************************************************************)
(* C26: the heights of the partial trees of a multi-threaded Bulkload       *)
(* (SpecBulk)                                                               *)
(***************************************************************************)

\* the entries that the tree was bulk-loaded with
BulkEntries == Entries({k \in BulkKeys : ref[k] # NoVal})

\* the Bulkload of the tree took the multi-threaded branch
BulkMulti == ops.bulk > 1 /\ Len(BulkEntries) >= ops.bulk

\* the partial trees that the workers of the Bulkload returned
BulkPartialTrees ==
    PartialTrees([nodes |-> [n \in NodeIds |-> BlankNode],
                  page |-> [n \in NodeIds |-> IF n = 1 THEN "live" ELSE "free"],
                  ok |-> TRUE],
                 BulkEntries, Len(BulkEntries), ops.bulk, 0, <<>>)

\* the top layers of the partial trees after the alignment loop, concatenated
BulkAligned ==
    LET pt == BulkPartialTrees IN
    AlignAndLink(pt.h, pt.trees, MaxHeight(pt.trees), NULL, <<>>).nodes

\* C26: after a multi-threaded Bulkload, every node of the concatenated top
\* layers is the root of a balanced subtree whose number of levels is the maximum
\* of the heights the workers reported, and all leaves of the final tree are at
\* one depth.
C26_AlignedHeights ==
    BulkMulti =>
        LET pt == BulkPartialTrees
            height == MaxHeight(pt.trees)
            top == BulkAligned
        IN  /\ \A i \in 1..Len(pt.trees) : pt.trees[i].height <= height
            /\ \E i \in 1..Len(pt.trees) : pt.trees[i].height = height
            /\ \A i \in 1..Len(top) :
                   /\ Height(top[i][2], MaxNodes) + 1 = height
                   /\ Balanced(top[i][2], MaxNodes)
            /\ Balanced(root, MaxNodes)

\* a Bulkload of two workers has returned; the first partial tree is a single
\* layer of leaves and the second has an inner layer above its leaves
C26_Witness ==
    /\ BulkMulti /\ ops.bulk = 2 /\ th[1].pc = "idle"
    /\ BulkPartialTrees.trees[1].height = 1
    /\ BulkPartialTrees.trees[2].height = 2

(***************************************************************************)
(* C27: the stack of CompleteSplit and Merge (SpecConc)                     *)
(***************************************************************************)

\* the stack is a path towards child c: its top is on the level above c and every
\* entry is on the level above the entry that follows it
IsPathTo(stack, c) ==
    /\ IsParentLevelOf(Back(stack), c)
    /\ \A i \in 1..(Len(stack) - 1) : IsParentLevelOf(stack[i], stack[i + 1])

\* actor a takes the top of its stack as the candidate parent in this step
TakesParent(a) ==
    /\ th[a].node = NULL /\ th[a].stack # <<>>
    /\ \/ th[a].pc = "cs" /\ th'[a] # th[a]
       \/ th[a].pc = "mg" /\ th'[a].pc = "mg_parent"

\* C27: when CompleteSplit or Merge takes the top of the stack as the candidate
\* parent of the child it installs or unlinks, the top is on the level above the
\* child and the entries below it are on the levels above, one level each, in
\* root-to-parent order; also when SearchParentNode ran on a stack that was not
\* empty.
C27_StackIsPath ==
    [][\A a \in Actors : TakesParent(a) => IsPathTo(th[a].stack, th[a].lch)]_vars

(***************************************************************************)
(* C28: the locks of an actor at its return (SpecConc)                      *)
(***************************************************************************)

\* the nodes that actor a holds in SIX
HeldSIX(a) == {n \in NodeIds : nodes[n].six = a}

C29_CursorLock ==
    /\ [](\A a \in Actors : th[a].pc \in {"hasnext", "deref"} => nodes[th[a].node].s >= 1)
    /\ [](\A n \in NodeIds : nodes[n].s >= 0)
    /\ [][\A a \in Actors :
            /\ th[a].pc = "hasnext" /\ th'[a] # th[a] /\ th'[a].ret # "kDropped" =>
                  LET n == th[a].node IN
                  CASE th'[a].pc = "deref" -> nodes' = nodes
                    [] th'[a].pc = "hasnext" ->
                          /\ th'[a].node = nodes[n].next
                          /\ nodes'[th'[a].node].s = nodes[th'[a].node].s + 1
                          /\ nodes'[n].s = nodes[n].s - 1
                    [] OTHER -> nodes'[n].s = nodes[n].s - 1
            /\ th[a].pc = "done" /\ th'[a].pc = "done" /\ th'[a] # th[a] => nodes' = nodes]_vars

====
